---- MODULE Spec2Model ----
(***************************************************************************)
(* Request-execution core of the huawei-dongle-api client: the error       *)
(* taxonomy (error.rs), the retry engine (retry.rs), the session state     *)
(* and token acquisition (session.rs), the request pipeline (client.rs)    *)
(* and the login / logout protocol (api/auth.rs).                          *)
(*                                                                         *)
(* Spec        one caller driving logical calls through the pipeline.      *)
(* SpecSession concurrent tasks calling the SessionManager operations,     *)
(*             with the tokio RwLock modelled explicitly.                  *)
(* SpecAcquire concurrent get_csrf_token callers on an empty cache, with   *)
(*             a device that answers token acquisition.                    *)
(* SpecCancel  SpecSession with tasks dropped at an await, and the         *)
(*             backoff sleep of execute.                                   *)
(* SpecDelay   RetryStrategy::calculate_delay over drawn strategies.       *)
(* SpecEncode  PasswordEncoder::encode_password (auth.rs) over drawn       *)
(*             passwords and login states.                                 *)
(* SpecHtml    extract_token_from_html over drawn home pages.              *)
(***************************************************************************)
EXTENDS Integers, Sequences, FiniteSets, TLC

\* ------------------------------------------------------------------ bounds

\* Largest Config.max_retries the model draws (0..MaxRetries).
MaxRetries == 3

\* Readings of chrono::Utc::now() the model draws (1..MaxTime).
MaxTime == 2

\* Concurrent callers sharing one SessionManager (tasks 1..NumTasks).
NumTasks == 2

\* SessionManager operations the concurrent callers start in one run.
MaxOps == 3

\* Characters of the longest password the model encodes.
MaxPasswordLen == 2

\* Meta tags of the longest home page the model extracts a token from.
MaxMetas == 2

\* ------------------------------------------------------- program constants

NO_RIGHTS == 100003
CSRF_TOKEN_ERROR == 125002
SESSION_TOKEN_ERROR == 125003
USERNAME_WRONG == 108001
PASSWORD_WRONG == 108002
ALREADY_LOGIN == 108003
USERNAME_PWD_WRONG == 108006
USERNAME_PWD_OVERRUN == 108007
WRONG_TOKEN == 125001
PASSWORD_CHANGE_REQUIRED == 115002
SYSTEM_UNKNOWN == 100001
SYSTEM_NO_SUPPORT == 100002
SYSTEM_BUSY == 100004
FORMAT_ERROR == 100005

\* Config::default().max_retries
DefaultMaxRetries == 3

\* content.len() > 20 in the last-resort meta tag heuristic
MinHeuristicLen == 20

\* ---------------------------------------------------------------- options

None == <<>>
Some(x) == <<x>>
IsSome(o) == Len(o) = 1
Unwrap(o) == o[1]

\* ------------------------------------------------------------------ errors

\* Error values: kind is the enum variant; code is Api.code (0 otherwise);
\* cause tells reqwest errors apart (is_timeout / is_connect / neither) and,
\* for Generic and Session errors, the place that made them.
MkErr(kind, code, cause) == [kind |-> kind, code |-> code, cause |-> cause]

NoErr == MkErr("", 0, "")

\* reqwest::Error as produced by send() / text(): it never carries a status
\* (only error_for_status attaches one, which the client never calls).
ErrHttp(cause) == MkErr("Http", 0, cause)
ErrQuickXml == MkErr("QuickXml", 0, "")
ErrAuthentication == MkErr("Authentication", 0, "")
ErrSession(cause) == MkErr("Session", 0, cause)
ErrGeneric(cause) == MkErr("Generic", 0, cause)

\* Error::api returning InvalidCredentials for a wrong user name and for a
\* wrong password alike
ErrorApi_MergesCredentialErrors(code) ==
    CASE code = NO_RIGHTS -> MkErr("LoginRequired", 0, "")
      [] code = CSRF_TOKEN_ERROR -> MkErr("CsrfTokenInvalid", 0, "")
      [] code = SESSION_TOKEN_ERROR -> MkErr("SessionTokenInvalid", 0, "")
      [] code \in {USERNAME_WRONG, PASSWORD_WRONG, USERNAME_PWD_WRONG} ->
            MkErr("InvalidCredentials", 0, "")
      [] code = ALREADY_LOGIN -> MkErr("AlreadyLoggedIn", 0, "")
      [] code = USERNAME_PWD_OVERRUN -> MkErr("TooManyLoginAttempts", 0, "")
      [] OTHER -> MkErr("Api", code, "")

\* Error::api mapping the wrong-token code 125001 to CsrfTokenInvalid, as it
\* maps 125002
ErrorApi_WrongTokenIsCsrf(code) ==
    CASE code = NO_RIGHTS -> MkErr("LoginRequired", 0, "")
      [] code \in {CSRF_TOKEN_ERROR, WRONG_TOKEN} -> MkErr("CsrfTokenInvalid", 0, "")
      [] code = SESSION_TOKEN_ERROR -> MkErr("SessionTokenInvalid", 0, "")
      [] code = USERNAME_WRONG -> MkErr("InvalidUsername", 0, "")
      [] code = PASSWORD_WRONG -> MkErr("InvalidPassword", 0, "")
      [] code = ALREADY_LOGIN -> MkErr("AlreadyLoggedIn", 0, "")
      [] code = USERNAME_PWD_WRONG -> MkErr("InvalidCredentials", 0, "")
      [] code = USERNAME_PWD_OVERRUN -> MkErr("TooManyLoginAttempts", 0, "")
      [] OTHER -> MkErr("Api", code, "")

\* Error::api
ErrorApi(code) ==
    CASE code = NO_RIGHTS -> MkErr("LoginRequired", 0, "")
      [] code = CSRF_TOKEN_ERROR -> MkErr("CsrfTokenInvalid", 0, "")
      [] code = SESSION_TOKEN_ERROR -> MkErr("SessionTokenInvalid", 0, "")
      [] code = USERNAME_WRONG -> MkErr("InvalidUsername", 0, "")
      [] code = PASSWORD_WRONG -> MkErr("InvalidPassword", 0, "")
      [] code = ALREADY_LOGIN -> MkErr("AlreadyLoggedIn", 0, "")
      [] code = USERNAME_PWD_WRONG -> MkErr("InvalidCredentials", 0, "")
      [] code = USERNAME_PWD_OVERRUN -> MkErr("TooManyLoginAttempts", 0, "")
      [] OTHER -> MkErr("Api", code, "")

\* is_retryable taking every Api error with an HTTP error status, 4xx
\* included, for a retryable one
IsRetryable_RetriesClientErrors(e) ==
    CASE e.kind = "Http" -> TRUE
      [] e.kind = "Api" -> e.code >= 400 /\ e.code < 600
      [] e.kind \in {"Session", "CsrfTokenInvalid", "SessionTokenInvalid"} -> TRUE
      [] OTHER -> FALSE

\* is_retryable taking a reqwest error for a permanent failure
IsRetryable_HttpIsFatal(e) ==
    CASE e.kind = "Http" -> FALSE
      [] e.kind = "Api" -> e.code >= 500 /\ e.code < 600
      [] e.kind \in {"Session", "CsrfTokenInvalid", "SessionTokenInvalid"} -> TRUE
      [] OTHER -> FALSE

\* Error::is_retryable
IsRetryable(e) ==
    CASE e.kind = "Http" ->
            IF e.cause \in {"timeout", "connect"} THEN TRUE
            ELSE IF e.code # 0 THEN ~(e.code >= 400 /\ e.code < 500)
            ELSE TRUE
      [] e.kind = "Api" -> e.code >= 500 /\ e.code < 600
      [] e.kind = "Session" -> TRUE
      [] e.kind = "LoginRequired" -> FALSE
      [] e.kind = "InvalidUsername" -> FALSE
      [] e.kind = "InvalidPassword" -> FALSE
      [] e.kind = "InvalidCredentials" -> FALSE
      [] e.kind = "TooManyLoginAttempts" -> FALSE
      [] e.kind = "AlreadyLoggedIn" -> FALSE
      [] e.kind = "CsrfTokenInvalid" -> TRUE
      [] e.kind = "SessionTokenInvalid" -> TRUE
      [] OTHER -> FALSE

IsTokenError(e) == e.kind \in {"CsrfTokenInvalid", "SessionTokenInvalid"}

\* Result<T>: val is a string ("" in an Err), err is NoErr in an Ok.
Ok(v) == [ok |-> TRUE, val |-> v, err |-> NoErr]
Err(e) == [ok |-> FALSE, val |-> "", err |-> e]
NoResult == [ok |-> FALSE, val |-> "", err |-> NoErr]

\* ----------------------------------------------------------- session state

\* SessionState::default()
DefaultSession ==
    [csrf_token |-> None, is_authenticated |-> FALSE,
     username |-> None, last_auth_time |-> None]

\* clear_session leaving is_authenticated as it was.
ClearSession_KeepsFlag(s) ==
    [s EXCEPT !.csrf_token = None, !.username = None, !.last_auth_time = None]

\* clear_session leaving the user name in place.
ClearSession_KeepsUsername(s) ==
    [s EXCEPT !.csrf_token = None, !.is_authenticated = FALSE,
              !.last_auth_time = None]

\* The writes of clear_session, made under one write lock.
ClearSession(s) ==
    [s EXCEPT !.csrf_token = None, !.is_authenticated = FALSE,
              !.username = None, !.last_auth_time = None]

\* The writes of mark_authenticated, made under one write lock.
MarkAuthenticated(s, user, now) ==
    [s EXCEPT !.is_authenticated = TRUE, !.username = Some(user),
              !.last_auth_time = Some(now)]

\* A token write that is lost.
CommitToken_Dropped(s, token) == s

\* A token write that also resets the authentication flag.
CommitToken_ResetsAuth(s, token) ==
    [s EXCEPT !.csrf_token = Some(token), !.is_authenticated = FALSE]

\* state.csrf_token = Some(token.clone())
CommitToken(s, token) == [s EXCEPT !.csrf_token = Some(token)]

\* The response headers that may carry a rotated token, in lookup order.
TokenHeaders ==
    << "__RequestVerificationToken",
       "__RequestVerificationTokenone",
       "__RequestVerificationTokentwo" >>

\* A header value that HeaderValue::to_str rejects (not visible ASCII).
Opaque == "\\xff"

\* update_token_from_headers taking the first header present as it is.
PickHeaderToken_AcceptsEmpty(headers, i) ==
    LET present == {j \in i..Len(TokenHeaders) : IsSome(headers[TokenHeaders[j]])} IN
    IF present = {} THEN None
    ELSE headers[TokenHeaders[CHOOSE j \in present : \A k \in present : j <= k]]

\* The value update_token_from_headers picks from header i onwards: the first
\* header that is present, is a string and is not empty; None if there is none.
RECURSIVE PickHeaderToken(_, _)
PickHeaderToken(headers, i) ==
    IF i > Len(TokenHeaders) THEN None
    ELSE LET v == headers[TokenHeaders[i]] IN
         IF IsSome(v) /\ Unwrap(v) # Opaque /\ Unwrap(v) # ""
         THEN v
         ELSE PickHeaderToken(headers, i + 1)

\* update_token_from_headers
UpdateTokenFromHeaders(s, headers) ==
    LET picked == PickHeaderToken(headers, 1) IN
    IF IsSome(picked) THEN CommitToken(s, Unwrap(picked)) ELSE s

\* ------------------------------------------------------- token extraction

\* quick_xml events of a body read with trim_text(true): an element holding
\* only white space yields no Text event. "Error" is a read_event_into
\* failure; a Text event with esc = FALSE fails to unescape.
XStart(n) == [type |-> "Start", name |-> n, text |-> "", esc |-> TRUE]
XEnd(n) == [type |-> "End", name |-> n, text |-> "", esc |-> TRUE]
XText(t) == [type |-> "Text", name |-> "", text |-> t, esc |-> TRUE]
XBadText == [type |-> "Text", name |-> "", text |-> "&;", esc |-> FALSE]
XError == [type |-> "Error", name |-> "", text |-> "", esc |-> TRUE]

\* The event loop of extract_token_from_xml from event i on.
RECURSIVE ScanXml(_, _, _)
ScanXml(events, i, in_token) ==
    IF i > Len(events) THEN Err(ErrSession("no_token_in_xml"))
    ELSE LET e == events[i] IN
         CASE e.type = "Error" -> Err(ErrQuickXml)
           [] e.type = "Start" /\ e.name = "token" -> ScanXml(events, i + 1, TRUE)
           [] e.type = "Text" /\ in_token ->
                IF e.esc THEN Ok(e.text) ELSE Err(ErrQuickXml)
           [] e.type = "End" /\ e.name = "token" -> ScanXml(events, i + 1, FALSE)
           [] OTHER -> ScanXml(events, i + 1, in_token)

\* extract_token_from_xml
ExtractTokenFromXml(events) == ScanXml(events, 1, FALSE)

\* A meta tag: name and content attributes (None when absent). A content is
\* its text with what the selectors and the heuristic read of it: its
\* length in bytes (str::len), whether it is all alphanumeric, whether it
\* contains "csrf"; and its length in characters and whether byte offset 10
\* is a character boundary, which for an ASCII text are len and TRUE.
Content(val, len, alnum, csrf) ==
    [val |-> val, len |-> len, alnum |-> alnum, csrf |-> csrf,
     chars |-> len, cut10 |-> TRUE]
Meta(name, content) == [name |-> name, content |-> content]

\* Indices of the meta tags matching a selector, in document order.
SelectNamedCsrf(metas) ==
    {i \in 1..Len(metas) : metas[i].name = Some("csrf_token")}
SelectContentCsrf(metas) ==
    {i \in 1..Len(metas) :
        IsSome(metas[i].content) /\ Unwrap(metas[i].content).csrf}
SelectHeuristic(metas) ==
    {i \in 1..Len(metas) :
        /\ IsSome(metas[i].content)
        /\ Unwrap(metas[i].content).len > MinHeuristicLen
        /\ Unwrap(metas[i].content).alnum}

Min(S) == CHOOSE x \in S : \A y \in S : x <= y

\* if let Some(el) = select(..).next() { if let Some(content) .. if !content.is_empty() }
FirstNonEmpty(metas, sel) ==
    IF sel = {} THEN None
    ELSE LET c == metas[Min(sel)].content IN
         IF IsSome(c) /\ Unwrap(c).len > 0 THEN Some(Unwrap(c).val) ELSE None

\* extract_token_from_html
ExtractTokenFromHtml(metas) ==
    LET a == FirstNonEmpty(metas, SelectNamedCsrf(metas))
        b == FirstNonEmpty(metas, SelectContentCsrf(metas))
        h == SelectHeuristic(metas)
    IN  IF IsSome(a) THEN Ok(Unwrap(a))
        ELSE IF IsSome(b) THEN Ok(Unwrap(b))
        ELSE IF h # {} THEN Ok(Unwrap(metas[Min(h)].content).val)
        ELSE Err(ErrSession("no_token_in_html"))


\* ------------------------------------------------------------- the device

\* Tokens the device issues.
Tokens == {"tokA", "tokB"}

\* Ways send() fails: reqwest's is_timeout, is_connect, or neither.
NetCauses == {"timeout", "connect", "other"}

\* Bodies of the token endpoint.
XmlBodies ==
    {<<XStart("response"), XStart("token"), XText(t), XEnd("token"),
       XEnd("response")>> : t \in Tokens}
    \cup {<<XStart("response"), XStart("token"), XEnd("token"), XEnd("response")>>,
          <<XStart("error"), XStart("code"), XText("100002"), XEnd("code"),
            XEnd("error")>>,
          <<XStart("response"), XError>>,
          <<XStart("token"), XBadText>>}

\* Home pages, as their meta tags in document order.
HtmlPages ==
    {<<Meta(Some("viewport"), Some(Content("width=device-width", 18, FALSE, FALSE))),
       Meta(Some("csrf_token"), Some(Content("tokA", 32, TRUE, FALSE)))>>,
     <<Meta(Some("csrf_token"), Some(Content("", 0, TRUE, FALSE))),
       Meta(Some("csrf_token"), Some(Content("tokA", 32, TRUE, FALSE))),
       Meta(Some("x"), Some(Content("tokB", 32, FALSE, TRUE)))>>,
     <<Meta(Some("csrf_token"), None),
       Meta(None, Some(Content("short", 5, TRUE, FALSE))),
       Meta(None, Some(Content("tokB", 32, TRUE, FALSE)))>>,
     <<Meta(Some("viewport"), Some(Content("width=device-width", 18, FALSE, FALSE)))>>,
     <<>>}

\* Status codes the device answers with.
Statuses == {200, 304, 401, 403, 404, 500}

StatusIsSuccess(st) == st >= 200 /\ st < 300
StatusIsClientError(st) == st >= 400 /\ st < 500
StatusIsServerError(st) == st >= 500 /\ st < 600

\* A reply to one HTTP request: net is "ok" or the way send() failed; read
\* tells whether response.text() succeeds.
Reply(net, status, headers, read, body) ==
    [net |-> net, status |-> status, headers |-> headers, read |-> read,
     body |-> body]

NoHeaders == [h \in {TokenHeaders[i] : i \in 1..Len(TokenHeaders)} |-> None]

\* Header sets of a reply.
HeaderMaps ==
    {NoHeaders,
     [NoHeaders EXCEPT !["__RequestVerificationToken"] = Some("tokB")],
     [NoHeaders EXCEPT !["__RequestVerificationToken"] = Some(""),
                       !["__RequestVerificationTokenone"] = Some("tokA"),
                       !["__RequestVerificationTokentwo"] = Some("tokB")],
     [NoHeaders EXCEPT !["__RequestVerificationToken"] = Some(Opaque),
                       !["__RequestVerificationTokentwo"] = Some("tokB")],
     [NoHeaders EXCEPT !["__RequestVerificationTokenone"] = Some("")]}

FailedReplies(emptyBody) ==
    {Reply(c, 0, NoHeaders, FALSE, emptyBody) : c \in NetCauses}
    \cup {Reply("ok", st, NoHeaders, TRUE, emptyBody) : st \in Statuses \ {200}}
    \cup {Reply("ok", 200, NoHeaders, FALSE, emptyBody)}

\* Replies of GET /api/webserver/token and of GET /.
ApiTokenReplies ==
    FailedReplies(<<>>) \cup {Reply("ok", 200, NoHeaders, TRUE, b) : b \in XmlBodies}
HomeReplies ==
    FailedReplies(<<>>) \cup {Reply("ok", 200, NoHeaders, TRUE, b) : b \in HtmlPages}


\* -------------------------------------------------------- token acquisition

\* What an operation on the session yields: the session after it, its
\* Result, and the acquisition requests it sent, in order.
Outcome(s, result, reqs) == [session |-> s, result |-> result, reqs |-> reqs]

\* try_api_token up to the extracted token (before the cache write).
ApiStageResult(r) ==
    IF r.net # "ok" THEN Err(ErrHttp(r.net))
    ELSE IF ~StatusIsSuccess(r.status) THEN Err(ErrSession("token_status"))
    ELSE IF ~r.read THEN Err(ErrHttp("body"))
    ELSE ExtractTokenFromXml(r.body)

\* try_homepage_token up to the extracted token (before the cache write).
HomeStageResult(r) ==
    IF r.net # "ok" THEN Err(ErrHttp(r.net))
    ELSE IF ~StatusIsSuccess(r.status) THEN Err(ErrSession("homepage_status"))
    ELSE IF ~r.read THEN Err(ErrHttp("body"))
    ELSE ExtractTokenFromHtml(r.body)

\* A stage's cache write and return value.
CommitStage(s, res, reqs) ==
    IF res.ok THEN Outcome(CommitToken(s, res.val), res, reqs)
    ELSE Outcome(s, res, reqs)

\* try_api_token
TryApiToken(s, r) == CommitStage(s, ApiStageResult(r), <<"api">>)

\* try_homepage_token
TryHomepageToken(s, r) == CommitStage(s, HomeStageResult(r), <<"home">>)

\* refresh_csrf_token, the device answering r1 at the token endpoint and r2 at
\* the home page (r2 is read only when the home page is requested).
RefreshCsrfToken(s, r1, r2) ==
    LET a == TryApiToken(s, r1) IN
    IF a.result.ok THEN a
    ELSE LET h == TryHomepageToken(s, r2) IN
         Outcome(h.session, h.result, a.reqs \o h.reqs)

\* get_csrf_token
GetCsrfToken(s, r1, r2) ==
    IF IsSome(s.csrf_token) THEN Outcome(s, Ok(Unwrap(s.csrf_token)), <<>>)
    ELSE RefreshCsrfToken(s, r1, r2)

\* ---------------------------------------------------------- client checks

\* check_response_status without the call of invalidate_session
CheckResponseStatus_NoInvalidate(s, status) ==
    IF StatusIsSuccess(status) THEN Outcome(s, Ok("unit"), <<>>)
    ELSE IF status = 401 \/ status = 403
         THEN Outcome(s, Err(ErrAuthentication), <<>>)
    ELSE Outcome(s, Err(ErrorApi(status)), <<>>)

\* check_response_status
CheckResponseStatus(s, status) ==
    IF StatusIsSuccess(status) THEN Outcome(s, Ok("unit"), <<>>)
    ELSE IF status = 401 \/ status = 403
         THEN Outcome(ClearSession(s), Err(ErrAuthentication), <<>>)
    ELSE Outcome(s, Err(ErrorApi(status)), <<>>)

\* Response bodies of the primary requests. kind is "payload" (what the
\* endpoint's parser accepts), "garbage" (no XML), "error" (an
\* <error><code>..</code></error> envelope with that code), "login_state"
\* (the state-login record: State and lockstatus) or "response" (the
\* <response> record: whether it has an OK element, whether it has an
\* ErrorCode element, whether that parses as an integer, and its value).
MkBody(kind, code, has_code, code_num, has_ok, state, locked) ==
    [kind |-> kind, code |-> code, has_code |-> has_code, code_num |-> code_num,
     has_ok |-> has_ok, state |-> state, locked |-> locked]
Payload == MkBody("payload", 0, FALSE, TRUE, FALSE, "", FALSE)
Garbage == MkBody("garbage", 0, FALSE, TRUE, FALSE, "", FALSE)
ErrorEnvelope(code) == MkBody("error", code, FALSE, TRUE, FALSE, "", FALSE)
LoginStateBody(state, locked) ==
    MkBody("login_state", 0, FALSE, TRUE, FALSE, state, locked)
ResponseOk == MkBody("response", 0, FALSE, TRUE, TRUE, "", FALSE)
ResponseCode(code) == MkBody("response", code, TRUE, TRUE, FALSE, "", FALSE)
ResponseBadCode == MkBody("response", 0, TRUE, FALSE, FALSE, "", FALSE)

\* The codes ApiErrorCode deserializes.
ApiErrorCodes ==
    {WRONG_TOKEN, CSRF_TOKEN_ERROR, SESSION_TOKEN_ERROR, USERNAME_WRONG,
     PASSWORD_WRONG, ALREADY_LOGIN, USERNAME_PWD_WRONG, USERNAME_PWD_OVERRUN,
     PASSWORD_CHANGE_REQUIRED, SYSTEM_UNKNOWN, SYSTEM_NO_SUPPORT, NO_RIGHTS,
     SYSTEM_BUSY, FORMAT_ERROR}

\* check_for_api_error: the envelope's code, if the body is an envelope that
\* deserializes into ApiError.
CheckForApiError(body) ==
    IF body.kind = "error" /\ body.code \in ApiErrorCodes
    THEN Some(body.code) ELSE None

\* ApiErrorCode::is_csrf_error, ApiErrorCode::is_session_error
IsCsrfError(code) == code \in {CSRF_TOKEN_ERROR, WRONG_TOKEN}
IsSessionError(code) == code = SESSION_TOKEN_ERROR

\* check_xml_for_errors returning the error without invalidate_session
CheckXmlForErrors_KeepsSession(s, body) ==
    LET api_error == CheckForApiError(body) IN
    IF IsSome(api_error)
    THEN Outcome(s, Err(ErrorApi(Unwrap(api_error))), <<>>)
    ELSE Outcome(s, Ok("unit"), <<>>)

\* check_xml_for_errors dropping only the cached token on a token-class
\* code, the authentication fields kept
CheckXmlForErrors_ClearsTokenOnly(s, body) ==
    LET api_error == CheckForApiError(body) IN
    IF IsSome(api_error)
    THEN LET code == Unwrap(api_error) IN
         Outcome(IF IsCsrfError(code) \/ IsSessionError(code)
                 THEN [s EXCEPT !.csrf_token = None] ELSE s,
                 Err(ErrorApi(code)), <<>>)
    ELSE Outcome(s, Ok("unit"), <<>>)

\* check_xml_for_errors
CheckXmlForErrors(s, body) ==
    LET api_error == CheckForApiError(body) IN
    IF IsSome(api_error)
    THEN LET code == Unwrap(api_error) IN
         Outcome(IF IsCsrfError(code) \/ IsSessionError(code)
                 THEN ClearSession(s) ELSE s,
                 Err(ErrorApi(code)), <<>>)
    ELSE Outcome(s, Ok("unit"), <<>>)

\* parse_fn / serde_xml_rs::from_str on a body without error envelope
ParseBody(body) ==
    IF body.kind = "payload" THEN Ok("parsed") ELSE Err(MkErr("Xml", 0, ""))

\* serde_xml_rs::from_str::<LoginState>: every field is required
ParseLoginState(body) ==
    IF body.kind = "login_state" THEN Ok("login_state")
    ELSE Err(ErrGeneric("Failed to parse login state"))

\* LoginState::is_logged_in, LoginState::is_locked
IsLoggedIn(body) == body.state = "0"
IsLocked(body) == body.locked

\* serde_xml_rs::from_str::<Response>: every field is optional, unknown
\* elements are skipped and the name of the root element is not checked, so
\* an error envelope parses too, into a Response without OK and ErrorCode.
ParseResponse(body) ==
    IF body.kind \in {"response", "error"} THEN Ok("response")
    ELSE Err(ErrGeneric("Failed to parse response"))

\* Response::is_success of the parsed body
ResponseIsSuccess(body) ==
    LET has_code == body.kind = "response" /\ body.has_code
        has_ok == body.kind = "response" /\ body.has_ok
    IN  has_ok \/ (has_code /\ body.code_num /\ body.code = 0) \/ ~has_code

\* Response::error_code(..).unwrap_or(-1) of the parsed body
ResponseErrorCode(body) ==
    IF body.kind = "response" /\ body.has_code /\ body.code_num
    THEN body.code ELSE -1

\* Bodies of the replies to the primary requests of the data endpoints.
Bodies ==
    {Payload, Garbage}
    \cup {ErrorEnvelope(c) :
            c \in {WRONG_TOKEN, CSRF_TOKEN_ERROR, SESSION_TOKEN_ERROR,
                   NO_RIGHTS, SYSTEM_BUSY, 999999}}

\* Bodies of GET /api/user/state-login
LoginStateBodies ==
    {LoginStateBody(st, l) : st \in {"0", "-1", "-2"}, l \in BOOLEAN}
    \cup {Garbage, ErrorEnvelope(SYSTEM_BUSY)}

\* Bodies of POST /api/user/login and POST /api/user/logout
ResponseBodies ==
    {ResponseOk, ResponseBadCode, Garbage}
    \cup {ResponseCode(c) :
            c \in {0, USERNAME_WRONG, PASSWORD_WRONG, USERNAME_PWD_WRONG,
                   USERNAME_PWD_OVERRUN, ALREADY_LOGIN, NO_RIGHTS, SYSTEM_BUSY}}
    \cup {ErrorEnvelope(c) : c \in {CSRF_TOKEN_ERROR, USERNAME_PWD_WRONG}}

\* Replies to a primary request whose endpoint answers with bodies B.
CallReplies(B) ==
    FailedReplies(Garbage)
    \cup {Reply("ok", 200, h, TRUE, b) : h \in HeaderMaps, b \in B}

\* ------------------------------------------------ the operations retried

\* What one invocation of a retried closure yields: the session after it,
\* its Result, the acquisition requests it sent, whether the primary request
\* was sent and with which token ("" for none), and the response it got.
Invocation(s, result, reqs, sent, token, resp) ==
    [session |-> s, result |-> result, reqs |-> reqs, sent |-> sent,
     token |-> token, resp |-> resp]

\* The closure reading the body and running check_xml_for_errors on it
\* before it returns the response
SendAndCheck_ChecksBody(s, reqs, token, r) ==
    IF r.net # "ok"
    THEN Invocation(s, Err(ErrHttp(r.net)), reqs, TRUE, token, r)
    ELSE LET c == CheckResponseStatus(s, r.status)
             u == UpdateTokenFromHeaders(c.session, r.headers)
             x == CheckXmlForErrors(u, r.body)
         IN  IF ~c.result.ok
             THEN Invocation(c.session, c.result, reqs, TRUE, token, r)
             ELSE IF r.read /\ ~x.result.ok
             THEN Invocation(x.session, x.result, reqs, TRUE, token, r)
             ELSE Invocation(u, Ok("response"), reqs, TRUE, token, r)

\* The closure returning the response without update_token_from_headers
SendAndCheck_SkipsHeaders(s, reqs, token, r) ==
    IF r.net # "ok"
    THEN Invocation(s, Err(ErrHttp(r.net)), reqs, TRUE, token, r)
    ELSE LET c == CheckResponseStatus(s, r.status) IN
         IF ~c.result.ok
         THEN Invocation(c.session, c.result, reqs, TRUE, token, r)
         ELSE Invocation(c.session, Ok("response"), reqs, TRUE, token, r)

\* send, check_response_status, update_token_from_headers, Ok(response)
SendAndCheck(s, reqs, token, r) ==
    IF r.net # "ok"
    THEN Invocation(s, Err(ErrHttp(r.net)), reqs, TRUE, token, r)
    ELSE LET c == CheckResponseStatus(s, r.status) IN
         IF ~c.result.ok
         THEN Invocation(c.session, c.result, reqs, TRUE, token, r)
         ELSE Invocation(UpdateTokenFromHeaders(c.session, r.headers),
                         Ok("response"), reqs, TRUE, token, r)

\* The closure of Client::get
GetOperation(s, r) == SendAndCheck(s, <<>>, "", r)

\* The closure of get_authenticated_internal and of post_xml_internal, g
\* being what its call of get_csrf_token yields.
TokenOperation(g, r) ==
    IF ~g.result.ok
    THEN Invocation(g.session, g.result, g.reqs, FALSE, "", r)
    ELSE SendAndCheck(g.session, g.reqs, g.result.val, r)

\* What refresh_csrf_token / get_csrf_token may yield on session s, over the
\* device's replies.
RefreshOutcomes(s) ==
    {RefreshCsrfToken(s, r1, r2) : r1 \in ApiTokenReplies, r2 \in HomeReplies}
GetCsrfTokenOutcomes(s) ==
    {GetCsrfToken(s, r1, r2) : r1 \in ApiTokenReplies, r2 \in HomeReplies}

\* ------------------------------------------------------- the retry engine

\* Config after ConfigBuilder::max_retries (if called) and build
ConfigBuild(max_retries) ==
    [max_retries |-> IF IsSome(max_retries) THEN Unwrap(max_retries)
                     ELSE DefaultMaxRetries]

\* The RetryStrategy Client::new builds from the Config
ClientNew(config) == [max_attempts |-> config.max_retries]

\* The loop of execute retrying whatever the error, retryable or not
ExecuteOnResult_RetriesAnyError(attempt, max_attempts, last_error, res) ==
    IF res.ok
    THEN [next |-> "return", result |-> res, last_error |-> last_error]
    ELSE [next |-> IF attempt < max_attempts - 1 THEN "sleep" ELSE "continue",
          result |-> NoResult, last_error |-> Some(res.err)]

\* The loop of execute returning the error of an earlier attempt although
\* the operation has now succeeded
ExecuteOnResult_KeepsError(attempt, max_attempts, last_error, res) ==
    IF res.ok
    THEN [next |-> "return",
          result |-> IF IsSome(last_error) THEN Err(Unwrap(last_error)) ELSE res,
          last_error |-> last_error]
    ELSE IF ~IsRetryable(res.err)
    THEN [next |-> "return", result |-> res, last_error |-> last_error]
    ELSE [next |-> IF attempt < max_attempts - 1 THEN "sleep" ELSE "continue",
          result |-> NoResult, last_error |-> Some(res.err)]

\* One iteration of the loop of execute on the operation's result res: what
\* the loop does next ("return", "sleep" before the next iteration, or
\* "continue" to it at once), the value returned and last_error afterwards.
ExecuteOnResult(attempt, max_attempts, last_error, res) ==
    IF res.ok
    THEN [next |-> "return", result |-> res, last_error |-> last_error]
    ELSE IF ~IsRetryable(res.err)
    THEN [next |-> "return", result |-> res, last_error |-> last_error]
    ELSE [next |-> IF attempt < max_attempts - 1 THEN "sleep" ELSE "continue",
          result |-> NoResult, last_error |-> Some(res.err)]

\* The loop of execute stopping one attempt early
ExecuteHasAttempt_OneShort(attempt, max_attempts) == attempt + 1 < max_attempts

\* The loop condition of execute: for attempt in 0..self.max_attempts
ExecuteHasAttempt(attempt, max_attempts) == attempt < max_attempts

\* Err(last_error.unwrap_or_else(|| Error::generic("All retry attempts failed")))
ExecuteExhausted(last_error) ==
    Err(IF IsSome(last_error) THEN Unwrap(last_error)
        ELSE ErrGeneric("All retry attempts failed"))

\* ------------------------------------------------------------------- state

VARIABLES
    session,         \* the SessionState behind the RwLock
    retry_strategy,  \* Client.retry_strategy
    call,            \* the caller's logical call: its position and locals
    tasks,           \* concurrent callers of the SessionManager
    lock,            \* the RwLock around the SessionState
    hist             \* what the concurrent callers have done so far

vars == <<session, retry_strategy, call, tasks, lock, hist>>

\* What the single-caller pipeline leaves alone, and what the concurrent
\* SessionManager callers leave alone.
task_vars == <<tasks, lock, hist>>
pipeline_vars == <<retry_strategy, call>>

\* The logical calls: a GET / POST endpoint that checks the body itself, the
\* endpoints built on get_authenticated_with_retry / post_xml_with_retry,
\* and AuthApi::login / AuthApi::logout.
Ops == {"get_check", "post_check", "get_auth_retry", "post_retry",
        "login", "logout"}

\* The user names login is called with.
Users == {"admin"}

\* The calls that refresh and replay.
RetryOps == {"get_auth_retry", "post_retry"}

\* Whether the op's request is sent by Client::get ("plain") or by
\* get_authenticated / post_xml ("token").
RequestOf(op) == IF op \in {"get_check", "login"} THEN "plain" ELSE "token"

\* The bodies the endpoint of a request answers with: login reads
\* state-login with get and then posts to /api/user/login.
BodiesOf(op, req) ==
    CASE op = "login" /\ req = "plain" -> LoginStateBodies
      [] op \in {"login", "logout"} -> ResponseBodies
      [] OTHER -> Bodies

\* The body and readability of a response kept until response.text().
NoResp == [read |-> FALSE, body |-> Garbage]

\* A caller between calls. Besides the locals of the code (attempt,
\* last_error, exec_result, resp, result) the record keeps the history the
\* properties read: trace (the class of each invocation of the current
\* execute), produced (the errors they returned), last_outcome, sleeps,
\* status (of the last response, 0 if none came), auth_before
\* (is_authenticated before the last invocation), token_sent, and tok_err /
\* refreshes / replays (the first token-class body error seen, the
\* refresh_csrf_token calls and the replays after it); sent_plain /
\* sent_token (the primary requests sent so far by Client::get and by
\* get_authenticated / post_xml), oks (the invocations that returned a
\* response), only5xx / only4xx (every invocation of the current execute was
\* answered with a 5xx status / with a 4xx status), state_body (the
\* state-login body login parsed), encoded (login went on to encode the
\* password), marked (login called mark_authenticated), auth_at_start
\* (is_authenticated when the call began) and hdr_tok (the first non-empty
\* token among the token headers of the response execute has just returned,
\* kept until the caller of execute takes the response).
IdleCall ==
    [op |-> "none", user |-> "", pc |-> "idle", req |-> "plain", pass |-> 1,
     inner |-> 1,
     attempt |-> 0, last_error |-> None, exec_result |-> NoResult,
     resp |-> NoResp, result |-> NoResult,
     trace |-> <<>>, produced |-> {}, last_outcome |-> NoResult, sleeps |-> 0,
     status |-> 0, auth_before |-> FALSE, token_sent |-> "",
     tok_err |-> FALSE, refreshes |-> 0, replays |-> 0,
     sent_plain |-> 0, sent_token |-> 0, oks |-> 0,
     only5xx |-> TRUE, only4xx |-> TRUE,
     state_body |-> Garbage, encoded |-> FALSE, marked |-> FALSE,
     auth_at_start |-> FALSE, hdr_tok |-> None]

\* The locals at the start of execute: let mut last_error = None; attempt 0
EnterExecute(c) ==
    [c EXCEPT !.pc = "exec", !.attempt = 0, !.last_error = None,
              !.exec_result = NoResult, !.resp = NoResp,
              !.trace = <<>>, !.produced = {}, !.last_outcome = NoResult,
              !.sleeps = 0, !.only5xx = TRUE, !.only4xx = TRUE]

Classify(res) ==
    IF res.ok THEN "ok" ELSE IF IsRetryable(res.err) THEN "retry" ELSE "fatal"

\* The first of the token headers, in lookup order, whose value is a
\* non-empty string; None if no header holds one.
FirstNonEmptyHeader(headers) ==
    LET usable == {i \in 1..Len(TokenHeaders) :
                      /\ IsSome(headers[TokenHeaders[i]])
                      /\ Unwrap(headers[TokenHeaders[i]]) \notin {"", Opaque}}
    IN  IF usable = {} THEN None
        ELSE headers[TokenHeaders[CHOOSE i \in usable : \A j \in usable : i <= j]]

\* What one invocation of the closure execute retries may yield.
Invocations(req, s, B) ==
    IF req = "plain"
    THEN {GetOperation(s, r) : r \in CallReplies(B)}
    ELSE {TokenOperation(g, r) :
            g \in GetCsrfTokenOutcomes(s), r \in CallReplies(B)}

\* ------------------------------------------- concurrent callers: state

Tasks == 1..NumTasks

\* The SessionManager operations a task calls.
SessionOps == {"get_csrf_token", "refresh_csrf_token", "clear_session",
               "invalidate_session", "mark_authenticated",
               "update_token_from_headers"}

\* The write a task makes once it holds the write lock.
\*   "acquired"  try_api_token / try_homepage_token storing the token
\*   "header"    update_token_from_headers storing the header value
\*   "clear"     clear_session
\*   "mark"      mark_authenticated
PendingWrite(kind, token, user) == [kind |-> kind, token |-> token, user |-> user]
NoWrite == PendingWrite("none", "", "")

\* A task: the operation it is in, its position in it, the write it is about
\* to make, the requests it has sent, what it returned; hit tells that
\* get_csrf_token found a cached token, stored is the token the task wrote
\* to the cache during the operation, stages holds what each acquisition
\* stage answered so far gave (its token, or None if the stage failed).
IdleTask ==
    [op |-> "none", pc |-> "idle", write |-> NoWrite, reqs |-> <<>>,
     result |-> NoResult, hit |-> FALSE, stored |-> None, stages |-> <<>>]

\* tokio::sync::RwLock: any number of readers or one writer (0: no writer).
FreeLock == [readers |-> {}, writer |-> 0]

\* started: operations begun; acquired: the tokens token acquisition has
\* stored; last_acquired: the token stored by the latest such write.
NoHist == [started |-> 0, acquired |-> {}, last_acquired |-> None]

\* Value of an operation that returns ().
Unit == "()"

Init ==
    /\ session = DefaultSession
    /\ \E m \in {None} \cup {Some(n) : n \in 0..MaxRetries} :
          retry_strategy = ClientNew(ConfigBuild(m))
    /\ call = IdleCall
    /\ tasks = [t \in Tasks |-> IdleTask]
    /\ lock = FreeLock
    /\ hist = NoHist

\* A caller starts a logical call: build_url, then execute.
StartCall(op, user) ==
    /\ call.pc \in {"idle", "done"}
    /\ call' = EnterExecute([IdleCall EXCEPT
                                !.op = op, !.req = RequestOf(op), !.user = user,
                                !.auth_at_start = session.is_authenticated])
    /\ UNCHANGED <<session, retry_strategy, task_vars>>

\* One iteration of execute: the operation runs and the loop matches on
\* its result.
ExecAttempt ==
    /\ call.pc = "exec"
    /\ ExecuteHasAttempt(call.attempt, retry_strategy.max_attempts)
    /\ \E inv \in Invocations(call.req, session, BodiesOf(call.op, call.req)) :
        LET r == inv.resp
            step == ExecuteOnResult(call.attempt, retry_strategy.max_attempts,
                                    call.last_error, inv.result)
            seen == [call EXCEPT
                       !.trace = Append(@, Classify(inv.result)),
                       !.produced = IF inv.result.ok THEN @
                                    ELSE @ \cup {inv.result.err},
                       !.last_outcome = inv.result,
                       !.token_sent = inv.token,
                       !.status = IF inv.sent /\ r.net = "ok" THEN r.status ELSE 0,
                       !.auth_before = session.is_authenticated,
                       !.refreshes = IF call.tok_err /\ inv.reqs # <<>>
                                     THEN @ + 1 ELSE @,
                       !.sent_plain = IF inv.sent /\ call.req = "plain"
                                      THEN @ + 1 ELSE @,
                       !.sent_token = IF inv.sent /\ call.req = "token"
                                      THEN @ + 1 ELSE @,
                       !.oks = IF inv.result.ok THEN @ + 1 ELSE @,
                       !.only5xx = @ /\ inv.sent /\ r.net = "ok"
                                     /\ StatusIsServerError(r.status),
                       !.only4xx = @ /\ inv.sent /\ r.net = "ok"
                                     /\ StatusIsClientError(r.status),
                       !.hdr_tok = IF inv.result.ok
                                   THEN FirstNonEmptyHeader(r.headers) ELSE None,
                       !.last_error = step.last_error]
        IN  /\ session' = inv.session
            /\ call' =
                 CASE step.next = "return" ->
                        [seen EXCEPT !.pc = "exec_ret",
                                     !.exec_result = step.result,
                                     !.resp = IF inv.result.ok
                                              THEN [read |-> r.read, body |-> r.body]
                                              ELSE NoResp]
                   [] step.next = "sleep" -> [seen EXCEPT !.pc = "sleep"]
                   [] OTHER -> [seen EXCEPT !.attempt = @ + 1]
    /\ UNCHANGED <<retry_strategy, task_vars>>

\* sleep(delay).await, then the next iteration
Sleep ==
    /\ call.pc = "sleep"
    /\ call' = [call EXCEPT !.pc = "exec", !.attempt = @ + 1, !.sleeps = @ + 1]
    /\ UNCHANGED <<session, retry_strategy, task_vars>>

\* The loop of execute is over: the value after it
ExecExhausted ==
    /\ call.pc = "exec"
    /\ ~ExecuteHasAttempt(call.attempt, retry_strategy.max_attempts)
    /\ call' = [call EXCEPT !.pc = "exec_ret",
                            !.exec_result = ExecuteExhausted(call.last_error)]
    /\ UNCHANGED <<session, retry_strategy, task_vars>>


\* A logical call ends with result res.
Finish(c, res) == [c EXCEPT !.pc = "done", !.result = res]

\* What the caller of execute does with its value. get_authenticated and
\* post_xml match on it: on a token-class error they refresh the token and
\* run execute once more, otherwise they return it; get returns it. The
\* caller of those applies `?`: an Err ends the logical call, an Ok goes on
\* to response.text().
ExecReturn ==
    /\ call.pc = "exec_ret"
    /\ IF /\ call.req = "token" /\ call.inner = 1
          /\ ~call.exec_result.ok /\ IsTokenError(call.exec_result.err)
       THEN \E f \in RefreshOutcomes(session) :
              /\ session' = f.session
              /\ call' = IF f.result.ok
                         THEN EnterExecute([call EXCEPT !.inner = 2])
                         ELSE Finish(call, f.result)
       ELSE /\ call' = IF call.exec_result.ok
                       THEN [call EXCEPT !.pc = "body", !.hdr_tok = None]
                       ELSE Finish(call, call.exec_result)
            /\ UNCHANGED session
    /\ UNCHANGED <<retry_strategy, task_vars>>

\* The with_retry functions refreshing again on a token-class error of the
\* replay
WithRetryOnBody_Loops(s, pass, body) ==
    LET x == CheckXmlForErrors(s, body) IN
    IF x.result.ok
    THEN [session |-> x.session, next |-> "done", result |-> ParseBody(body)]
    ELSE IF IsTokenError(x.result.err)
    THEN [session |-> x.session, next |-> "refresh", result |-> NoResult]
    ELSE [session |-> x.session, next |-> "done", result |-> x.result]

\* What post_xml_with_retry / get_authenticated_with_retry do with the text
\* of a response, in pass 1 (the match) and in pass 2 (the replay): the
\* session afterwards, and either the call's result or "refresh".
WithRetryOnBody(s, pass, body) ==
    LET x == CheckXmlForErrors(s, body) IN
    IF x.result.ok
    THEN [session |-> x.session, next |-> "done", result |-> ParseBody(body)]
    ELSE IF pass = 1 /\ IsTokenError(x.result.err)
    THEN [session |-> x.session, next |-> "refresh", result |-> NoResult]
    ELSE [session |-> x.session, next |-> "done", result |-> x.result]

\* An endpoint calling check_xml_for_errors itself and replaying the request
\* after a refresh when the error is token-class
CheckedOnBody_Replays(s, body) ==
    LET x == CheckXmlForErrors(s, body) IN
    IF ~x.result.ok /\ IsTokenError(x.result.err)
    THEN [session |-> x.session, next |-> "refresh", result |-> NoResult]
    ELSE [session |-> x.session, next |-> "done",
          result |-> IF x.result.ok THEN ParseBody(body) ELSE x.result]

\* What an endpoint calling check_xml_for_errors itself does with the text.
CheckedOnBody(s, body) ==
    LET x == CheckXmlForErrors(s, body) IN
    [session |-> x.session, next |-> "done",
     result |-> IF x.result.ok THEN ParseBody(body) ELSE x.result]

\* login going on to the POST although the account is reported logged in
LoginOnState_IgnoresLoggedIn(s, body) ==
    LET p == ParseLoginState(body) IN
    IF ~p.ok THEN [session |-> s, next |-> "done", result |-> p]
    ELSE IF IsLocked(body)
    THEN [session |-> s, next |-> "done", result |-> Err(ErrSession("locked"))]
    ELSE [session |-> s, next |-> "post", result |-> NoResult]

\* login marking the session authenticated before it looks at the response
LoginOnResponse_MarksFirst(s, body, user, now) ==
    LET p == ParseResponse(body) IN
    IF ~p.ok THEN [session |-> s, next |-> "done", result |-> p]
    ELSE IF ~ResponseIsSuccess(body)
    THEN [session |-> MarkAuthenticated(s, user, now), next |-> "done",
          result |-> Err(ErrorApi(ResponseErrorCode(body)))]
    ELSE [session |-> MarkAuthenticated(s, user, now), next |-> "done",
          result |-> Ok("unit")]

\* login setting is_authenticated when the account is reported logged in
LoginOnState_MarksLoggedIn(s, body) ==
    LET p == ParseLoginState(body) IN
    IF ~p.ok THEN [session |-> s, next |-> "done", result |-> p]
    ELSE IF IsLoggedIn(body)
    THEN [session |-> [s EXCEPT !.is_authenticated = TRUE], next |-> "done",
          result |-> Ok("unit")]
    ELSE IF IsLocked(body)
    THEN [session |-> s, next |-> "done", result |-> Err(ErrSession("locked"))]
    ELSE [session |-> s, next |-> "post", result |-> NoResult]

\* What login does with the text of the state-login response: "post" is to
\* go on to encode the password and post the login request.
LoginOnState(s, body) ==
    LET p == ParseLoginState(body) IN
    IF ~p.ok THEN [session |-> s, next |-> "done", result |-> p]
    ELSE IF IsLoggedIn(body)
    THEN [session |-> s, next |-> "done", result |-> Ok("unit")]
    ELSE IF IsLocked(body)
    THEN [session |-> s, next |-> "done", result |-> Err(ErrSession("locked"))]
    ELSE [session |-> s, next |-> "post", result |-> NoResult]

\* What login does with the text of the login response.
LoginOnResponse(s, body, user, now) ==
    LET p == ParseResponse(body) IN
    IF ~p.ok THEN [session |-> s, next |-> "done", result |-> p]
    ELSE IF ~ResponseIsSuccess(body)
    THEN [session |-> s, next |-> "done",
          result |-> Err(ErrorApi(ResponseErrorCode(body)))]
    ELSE [session |-> MarkAuthenticated(s, user, now), next |-> "done",
          result |-> Ok("unit")]

\* What logout does with the text of the logout response.
LogoutOnResponse(s, body) ==
    LET p == ParseResponse(body) IN
    IF ~p.ok THEN [session |-> s, next |-> "done", result |-> p]
    ELSE IF ~ResponseIsSuccess(body)
    THEN [session |-> s, next |-> "done",
          result |-> Err(ErrorApi(ResponseErrorCode(body)))]
    ELSE [session |-> ClearSession(s), next |-> "done", result |-> Ok("unit")]

\* response.text().await?, then the endpoint's handling of the text
ReadBody ==
    /\ call.pc = "body"
    /\ IF ~call.resp.read
       THEN /\ call' = Finish(call, Err(ErrHttp("body")))
            /\ UNCHANGED session
       ELSE \E now \in 1..MaxTime :
            LET body == call.resp.body
                b == CASE call.op \in RetryOps ->
                            WithRetryOnBody(session, call.pass, body)
                       [] call.op = "login" /\ call.req = "plain" ->
                            LoginOnState(session, body)
                       [] call.op = "login" ->
                            LoginOnResponse(session, body, call.user, now)
                       [] call.op = "logout" -> LogoutOnResponse(session, body)
                       [] OTHER -> CheckedOnBody(session, body)
                seen == [call EXCEPT
                           !.state_body =
                               IF /\ call.op = "login" /\ call.req = "plain"
                                  /\ ParseLoginState(body).ok
                               THEN body ELSE @,
                           !.encoded = @ \/ b.next = "post",
                           !.marked = @ \/ (/\ call.op = "login"
                                            /\ call.req = "token"
                                            /\ b.result.ok)]
            IN  /\ session' = b.session
                /\ call' = CASE b.next = "refresh" ->
                                  [seen EXCEPT !.pc = "refresh", !.tok_err = TRUE]
                             [] b.next = "post" ->
                                  EnterExecute([seen EXCEPT !.req = "token"])
                             [] OTHER -> Finish(seen, b.result)
    /\ UNCHANGED <<retry_strategy, task_vars>>

\* The refresh-and-replay branch: self.session.refresh_csrf_token().await?;
\* then the request once more.
Refresh ==
    /\ call.pc = "refresh"
    /\ \E f \in RefreshOutcomes(session) :
         LET c == [call EXCEPT !.refreshes = @ + 1]
         IN  /\ session' = f.session
             /\ call' = IF f.result.ok
                        THEN EnterExecute([c EXCEPT !.pass = 2, !.inner = 1,
                                                    !.replays = @ + 1])
                        ELSE Finish(c, f.result)
    /\ UNCHANGED <<retry_strategy, task_vars>>

Next ==
    \/ \E op \in Ops, user \in Users : StartCall(op, user)
    \/ ExecAttempt
    \/ Sleep
    \/ ExecExhausted
    \/ ExecReturn
    \/ ReadBody
    \/ Refresh

Spec == Init /\ [][Next]_vars

\* A step of the logical call under way.
CallStep ==
    \/ ExecAttempt
    \/ Sleep
    \/ ExecExhausted
    \/ ExecReturn
    \/ ReadBody
    \/ Refresh

\* --------------------------------------- concurrent callers: operations

\* refresh_csrf_token looking into the cache first, as get_csrf_token does
BeginOp_RefreshReadsCache(op, headers, user) ==
    LET base == [IdleTask EXCEPT !.op = op]
        picked == PickHeaderToken(headers, 1)
    IN  CASE op \in {"get_csrf_token", "refresh_csrf_token"} ->
                [base EXCEPT !.pc = "rlock"]
          [] op \in {"clear_session", "invalidate_session"} ->
                [base EXCEPT !.pc = "wlock",
                             !.write = PendingWrite("clear", "", "")]
          [] op = "mark_authenticated" ->
                [base EXCEPT !.pc = "wlock",
                             !.write = PendingWrite("mark", "", user)]
          [] op = "update_token_from_headers" ->
                IF IsSome(picked)
                THEN [base EXCEPT !.pc = "wlock",
                                  !.write = PendingWrite("header", Unwrap(picked), "")]
                ELSE [base EXCEPT !.pc = "done", !.result = Ok(Unit)]

\* The task's first step in an operation, up to its first await on the lock
\* or on the network. update_token_from_headers asks for the write lock only
\* when a header holds a usable value, and returns at once otherwise.
BeginOp(op, headers, user) ==
    LET base == [IdleTask EXCEPT !.op = op]
        picked == PickHeaderToken(headers, 1)
    IN  CASE op = "get_csrf_token" -> [base EXCEPT !.pc = "rlock"]
          [] op = "refresh_csrf_token" -> [base EXCEPT !.pc = "api_send"]
          [] op \in {"clear_session", "invalidate_session"} ->
                [base EXCEPT !.pc = "wlock",
                             !.write = PendingWrite("clear", "", "")]
          [] op = "mark_authenticated" ->
                [base EXCEPT !.pc = "wlock",
                             !.write = PendingWrite("mark", "", user)]
          [] op = "update_token_from_headers" ->
                IF IsSome(picked)
                THEN [base EXCEPT !.pc = "wlock",
                                  !.write = PendingWrite("header", Unwrap(picked), "")]
                ELSE [base EXCEPT !.pc = "done", !.result = Ok(Unit)]

\* The ways a task can enter an operation, over the operations, the response
\* headers handed to update_token_from_headers and the user names.
Calls ==
    {BeginOp(op, headers, user) :
        op \in SessionOps, headers \in HeaderMaps, user \in Users}

\* A task calls a SessionManager operation.
CallOperation(t) ==
    /\ tasks[t].pc \in {"idle", "done", "cancelled"}
    /\ hist.started < MaxOps
    /\ \E c \in Calls : tasks' = [tasks EXCEPT ![t] = c]
    /\ hist' = [hist EXCEPT !.started = @ + 1]
    /\ UNCHANGED <<session, lock, pipeline_vars>>

\* A task calls get_csrf_token, once.
CallGetCsrfToken(t) ==
    /\ tasks[t].pc = "idle"
    /\ tasks' = [tasks EXCEPT ![t] = BeginOp("get_csrf_token", NoHeaders, "admin")]
    /\ UNCHANGED <<session, lock, hist, pipeline_vars>>

\* self.state.read().await completes: no writer holds the lock.
AcquireRead(t) ==
    /\ tasks[t].pc = "rlock"
    /\ lock.writer = 0
    /\ lock' = [lock EXCEPT !.readers = @ \cup {t}]
    /\ tasks' = [tasks EXCEPT ![t].pc = "read"]
    /\ UNCHANGED <<session, hist, pipeline_vars>>

\* get_csrf_token keeping its read guard while it goes on to
\* refresh_csrf_token
ReadCache_KeepsGuard(t) ==
    /\ tasks[t].pc = "read"
    /\ t \in lock.readers
    /\ lock' = IF IsSome(session.csrf_token)
               THEN [lock EXCEPT !.readers = @ \ {t}] ELSE lock
    /\ tasks' = [tasks EXCEPT ![t] =
          IF IsSome(session.csrf_token)
          THEN [@ EXCEPT !.pc = "done", !.hit = TRUE,
                         !.result = Ok(Unwrap(session.csrf_token))]
          ELSE [@ EXCEPT !.pc = "api_send"]]
    /\ UNCHANGED <<session, hist, pipeline_vars>>

\* get_csrf_token under the read guard: return the cached token, or drop the
\* guard and go on to refresh_csrf_token.
ReadCache(t) ==
    /\ tasks[t].pc = "read"
    /\ t \in lock.readers
    /\ lock' = [lock EXCEPT !.readers = @ \ {t}]
    /\ tasks' = [tasks EXCEPT ![t] =
          IF IsSome(session.csrf_token)
          THEN [@ EXCEPT !.pc = "done", !.hit = TRUE,
                         !.result = Ok(Unwrap(session.csrf_token))]
          ELSE [@ EXCEPT !.pc = "api_send"]]
    /\ UNCHANGED <<session, hist, pipeline_vars>>

\* What the two stages extract from the replies of the device.
ApiStageResults == {ApiStageResult(r) : r \in ApiTokenReplies}
HomeStageResults == {HomeStageResult(r) : r \in HomeReplies}

\* refresh_csrf_token going on to the home page whatever the token endpoint
\* gave
ApiRespond_AlwaysFallsThrough(t, Results) ==
    /\ tasks[t].pc = "api_send"
    /\ \E res \in Results :
          tasks' = [tasks EXCEPT ![t] =
              [@ EXCEPT !.pc = "home_send", !.reqs = Append(@, "api"),
                        !.stages = Append(@, IF res.ok THEN Some(res.val)
                                             ELSE None)]]
    /\ UNCHANGED <<session, lock, hist, pipeline_vars>>

\* try_api_token: GET /api/webserver/token is answered and the stage
\* extracts res. A token goes on to the cache write; a failure goes on to the
\* home page.
ApiRespond(t, Results) ==
    /\ tasks[t].pc = "api_send"
    /\ \E res \in Results :
          tasks' = [tasks EXCEPT ![t] =
              IF res.ok
              THEN [@ EXCEPT !.pc = "wlock", !.reqs = Append(@, "api"),
                             !.stages = Append(@, Some(res.val)),
                             !.write = PendingWrite("acquired", res.val, "")]
              ELSE [@ EXCEPT !.pc = "home_send", !.reqs = Append(@, "api"),
                             !.stages = Append(@, None)]]
    /\ UNCHANGED <<session, lock, hist, pipeline_vars>>

\* try_homepage_token dropping the cached token when the home page gives
\* none
HomeRespond_ClearsOnFailure(t, Results) ==
    /\ tasks[t].pc = "home_send"
    /\ \E res \in Results :
          /\ tasks' = [tasks EXCEPT ![t] =
                IF res.ok
                THEN [@ EXCEPT !.pc = "wlock", !.reqs = Append(@, "home"),
                               !.stages = Append(@, Some(res.val)),
                               !.write = PendingWrite("acquired", res.val, "")]
                ELSE [@ EXCEPT !.pc = "done", !.reqs = Append(@, "home"),
                               !.stages = Append(@, None),
                               !.result = res]]
          /\ session' = IF res.ok THEN session
                        ELSE [session EXCEPT !.csrf_token = None]
    /\ UNCHANGED <<lock, hist, pipeline_vars>>

\* try_homepage_token: GET / is answered and the stage extracts res. A token
\* goes on to the cache write; a failure is what refresh_csrf_token returns.
HomeRespond(t, Results) ==
    /\ tasks[t].pc = "home_send"
    /\ \E res \in Results :
          tasks' = [tasks EXCEPT ![t] =
              IF res.ok
              THEN [@ EXCEPT !.pc = "wlock", !.reqs = Append(@, "home"),
                             !.stages = Append(@, Some(res.val)),
                             !.write = PendingWrite("acquired", res.val, "")]
              ELSE [@ EXCEPT !.pc = "done", !.reqs = Append(@, "home"),
                             !.stages = Append(@, None),
                             !.result = res]]
    /\ UNCHANGED <<session, lock, hist, pipeline_vars>>

\* self.state.write().await completes: nobody holds the lock.
AcquireWrite(t) ==
    /\ tasks[t].pc = "wlock"
    /\ lock.writer = 0
    /\ lock.readers = {}
    /\ lock' = [lock EXCEPT !.writer = t]
    /\ tasks' = [tasks EXCEPT ![t].pc = "write"]
    /\ UNCHANGED <<session, hist, pipeline_vars>>

\* The session after the writes of a write-guard block.
ApplyWrite(s, w, now) ==
    CASE w.kind = "mark" -> MarkAuthenticated(s, w.user, now)
      [] w.kind = "clear" -> ClearSession(s)
      [] OTHER -> CommitToken(s, w.token)

\* The block under the write guard: the writes are made, the guard is
\* dropped and the operation returns.
WriteState(t) ==
    LET w == tasks[t].write IN
    /\ tasks[t].pc = "write"
    /\ lock.writer = t
    /\ \E now \in 1..MaxTime : session' = ApplyWrite(session, w, now)
    /\ lock' = FreeLock
    /\ tasks' = [tasks EXCEPT ![t] =
          [@ EXCEPT !.pc = "done", !.write = NoWrite,
                    !.result = IF w.kind = "acquired" THEN Ok(w.token) ELSE Ok(Unit),
                    !.stored = IF w.kind \in {"acquired", "header"}
                               THEN Some(w.token) ELSE None]]
    /\ hist' = IF w.kind = "acquired"
               THEN [hist EXCEPT !.acquired = @ \cup {w.token},
                                 !.last_acquired = Some(w.token)]
               ELSE hist
    /\ UNCHANGED pipeline_vars

\* A freshly built client shared by the tasks.
InitSession ==
    /\ session = DefaultSession
    /\ retry_strategy = ClientNew(ConfigBuild(None))
    /\ call = IdleCall
    /\ tasks = [t \in Tasks |-> IdleTask]
    /\ lock = FreeLock
    /\ hist = NoHist

NextSession ==
    \E t \in Tasks :
        \/ CallOperation(t)
        \/ AcquireRead(t)
        \/ ReadCache(t)
        \/ ApiRespond(t, ApiStageResults)
        \/ HomeRespond(t, HomeStageResults)
        \/ AcquireWrite(t)
        \/ WriteState(t)

SpecSession == InitSession /\ [][NextSession]_vars

\* The home-page stage of a device that answers token acquisition: whenever
\* the token endpoint gave no token, the home page gives one.
AnsweringHomeResults == {res \in HomeStageResults : res.ok}

NextAcquire ==
    \E t \in Tasks :
        \/ CallGetCsrfToken(t)
        \/ AcquireRead(t)
        \/ ReadCache(t)
        \/ ApiRespond(t, ApiStageResults)
        \/ HomeRespond(t, AnsweringHomeResults)
        \/ AcquireWrite(t)
        \/ WriteState(t)

SpecAcquire == InitSession /\ [][NextAcquire]_vars



\* ----------------------------------------------- cancellation of callers

\* The positions at which a caller is suspended: awaiting the session lock,
\* awaiting an HTTP response, sleeping in backoff.
SuspensionPoints == {"rlock", "wlock", "api_send", "home_send", "sleep"}

\* A caller's future dropped inside a write block, after the first field
\* was written and with the guard never released
Cancel_InsideWriteBlock(t) ==
    /\ tasks[t].pc = "write"
    /\ session' = IF tasks[t].write.kind = "mark"
                  THEN [session EXCEPT !.is_authenticated = TRUE]
                  ELSE [session EXCEPT !.csrf_token = None]
    /\ tasks' = [tasks EXCEPT ![t] = [@ EXCEPT !.pc = "cancelled"]]
    /\ UNCHANGED <<lock, hist, pipeline_vars>>

\* The caller's future is dropped at a suspension point: the operation
\* stops there and the write it was heading for is never made. Of the
\* dropped future the record keeps the operation and that write.
Cancel(t) ==
    /\ tasks[t].pc \in SuspensionPoints
    /\ tasks' = [tasks EXCEPT ![t] = [IdleTask EXCEPT !.op = tasks[t].op,
                                                      !.pc = "cancelled",
                                                      !.write = tasks[t].write]]
    /\ UNCHANGED <<session, lock, hist, pipeline_vars>>

\* A caller inside execute reaches sleep(delay).await between two
\* invocations of its operation.
BackoffSleep(t) ==
    /\ tasks[t].pc \in {"idle", "done", "cancelled"}
    /\ hist.started < MaxOps
    /\ tasks' = [tasks EXCEPT ![t] = [IdleTask EXCEPT !.op = "backoff",
                                                      !.pc = "sleep"]]
    /\ hist' = [hist EXCEPT !.started = @ + 1]
    /\ UNCHANGED <<session, lock, pipeline_vars>>

\* The sleep is over.
BackoffWake(t) ==
    /\ tasks[t].pc = "sleep"
    /\ tasks' = [tasks EXCEPT ![t] = [@ EXCEPT !.pc = "done",
                                               !.result = Ok(Unit)]]
    /\ UNCHANGED <<session, lock, hist, pipeline_vars>>

NextCancel ==
    \E t \in Tasks :
        \/ CallOperation(t)
        \/ AcquireRead(t)
        \/ ReadCache(t)
        \/ ApiRespond(t, ApiStageResults)
        \/ HomeRespond(t, HomeStageResults)
        \/ AcquireWrite(t)
        \/ WriteState(t)
        \/ BackoffSleep(t)
        \/ BackoffWake(t)
        \/ Cancel(t)

SpecCancel == InitSession /\ [][NextCancel]_vars


\* ------------------------------------------------------- backoff delays

\* b to the power k: f64::powi on values exact in f64
RECURSIVE Pow(_, _)
Pow(b, k) == IF k = 0 THEN 1 ELSE b * Pow(b, k - 1)

\* A RetryStrategy built field by field (the fields are public). Durations
\* are whole milliseconds; backoff_multiplier is the fraction num / den.
RetryStrategyOf(max_attempts, initial_delay, max_delay, num, den, jitter) ==
    [max_attempts |-> max_attempts, initial_delay |-> initial_delay,
     max_delay |-> max_delay,
     backoff_multiplier |-> [num |-> num, den |-> den], jitter |-> jitter]

\* The multipliers drawn: 0.5, 1.0, 1.5 and 2.0.
Multipliers == {<<1, 2>>, <<1, 1>>, <<3, 2>>, <<2, 1>>}

\* The strategies drawn: without jitter, delays from 0 to the 10 s of the
\* crate's example; with jitter, delays of a few milliseconds.
Strategies ==
    {RetryStrategyOf(n, i, m, f[1], f[2], FALSE) :
        n \in 0..(MaxRetries + 2), i \in {0, 1, 3, 100},
        m \in {0, 5, 250, 10000}, f \in Multipliers}
    \cup {RetryStrategyOf(n, i, m, f[1], f[2], TRUE) :
            n \in 0..(MaxRetries + 2), i \in {0, 1, 3},
            m \in {0, 5}, f \in Multipliers}

\* calculate_delay never capping the delay at max_delay
CalculateDelay_NoCap(st, attempt) ==
    LET m == st.backoff_multiplier
    IN  {(st.initial_delay * Pow(m.num, attempt)) \div Pow(m.den, attempt)}

\* calculate_delay jittering the delay it has not capped
CalculateDelay_JitterUncapped(st, attempt) ==
    LET m == st.backoff_multiplier
        delay == (st.initial_delay * Pow(m.num, attempt))
                     \div Pow(m.den, attempt)
    IN  IF st.jitter
        THEN {j \in 0..(2 * delay) : 4 * j + 3 >= 3 * delay /\ 4 * j <= 5 * delay}
        ELSE {IF delay < st.max_delay THEN delay ELSE st.max_delay}

\* calculate_delay: the delays it may return for an attempt, in
\* milliseconds. (base_delay * multiplier) as u64 truncates; the jitter
\* factor 0.75 + fastrand::f64() * 0.5 lies in [0.75, 1.25] (the sum rounds
\* to 1.25 for the largest values of fastrand::f64()), and the jittered
\* delay is truncated again.
CalculateDelay(st, attempt) ==
    LET m == st.backoff_multiplier
        delay_ms == (st.initial_delay * Pow(m.num, attempt))
                        \div Pow(m.den, attempt)
        delay == IF delay_ms < st.max_delay THEN delay_ms ELSE st.max_delay
    IN  IF st.jitter
        THEN {j \in 0..(2 * delay) : 4 * j + 3 >= 3 * delay /\ 4 * j <= 5 * delay}
        ELSE {delay}

\* An execute whose operation fails with a retryable error every time:
\* attempt is the loop variable, delays the delays slept so far.
InitDelay ==
    /\ session = DefaultSession
    /\ retry_strategy \in Strategies
    /\ call = [pc |-> "exec", attempt |-> 0, delays |-> <<>>]
    /\ tasks = [t \in Tasks |-> IdleTask]
    /\ lock = FreeLock
    /\ hist = NoHist

\* The operation has failed and another attempt is left: the delay is
\* calculated and the sleep begins.
DelayBeforeRetry ==
    /\ call.pc = "exec"
    /\ ExecuteHasAttempt(call.attempt, retry_strategy.max_attempts)
    /\ call.attempt < retry_strategy.max_attempts - 1
    /\ \E d \in CalculateDelay(retry_strategy, call.attempt) :
          call' = [call EXCEPT !.pc = "sleep", !.delays = Append(@, d)]
    /\ UNCHANGED <<session, retry_strategy, task_vars>>

\* The sleep is over: the next iteration.
DelayElapsed ==
    /\ call.pc = "sleep"
    /\ call' = [call EXCEPT !.pc = "exec", !.attempt = @ + 1]
    /\ UNCHANGED <<session, retry_strategy, task_vars>>

\* The operation has failed in the last iteration (no sleep follows), or
\* max_attempts is 0: execute returns.
DelayLoopEnds ==
    /\ call.pc = "exec"
    /\ ~(call.attempt < retry_strategy.max_attempts - 1)
    /\ call' = [call EXCEPT !.pc = "exec_ret"]
    /\ UNCHANGED <<session, retry_strategy, task_vars>>

NextDelay ==
    \/ DelayBeforeRetry
    \/ DelayElapsed
    \/ DelayLoopEnds

SpecDelay == InitDelay /\ [][NextDelay]_vars


\* ------------------------------------------------------ password encoding

\* Strings that are encoded or produced are sequences: a password is the
\* sequence of its bytes (password.as_bytes()), an encoded password is the
\* sequence of its characters.

\* encode_base64, general_purpose::STANDARD.encode: three bytes give four
\* characters of the standard alphabet, a last group of one or two bytes is
\* padded with "=".
RECURSIVE EncodeBase64(_)
EncodeBase64(bytes) ==
    LET STANDARD ==
            <<"A", "B", "C", "D", "E", "F", "G", "H", "I", "J", "K", "L", "M",
              "N", "O", "P", "Q", "R", "S", "T", "U", "V", "W", "X", "Y", "Z",
              "a", "b", "c", "d", "e", "f", "g", "h", "i", "j", "k", "l", "m",
              "n", "o", "p", "q", "r", "s", "t", "u", "v", "w", "x", "y", "z",
              "0", "1", "2", "3", "4", "5", "6", "7", "8", "9", "+", "/">>
        c(n) == STANDARD[n + 1]
        b1 == bytes[1]
        b2 == bytes[2]
        b3 == bytes[3]
    IN  CASE Len(bytes) = 0 -> <<>>
          [] Len(bytes) = 1 ->
                <<c(b1 \div 4), c((b1 % 4) * 16), "=", "=">>
          [] Len(bytes) = 2 ->
                <<c(b1 \div 4), c((b1 % 4) * 16 + b2 \div 16),
                  c((b2 % 16) * 4), "=">>
          [] OTHER ->
                <<c(b1 \div 4), c((b1 % 4) * 16 + b2 \div 16),
                  c((b2 % 16) * 4 + b3 \div 64), c(b3 % 64)>>
                \o EncodeBase64(SubSeq(bytes, 4, Len(bytes)))

\* Sha256 (FIPS 180-4), as encode_sha256 uses it. A 32-bit word is the pair
\* <<hi, lo>> of its 16-bit halves.

\* Bitwise exclusive or and bitwise and of two natural numbers.
RECURSIVE BitXor(_, _)
BitXor(a, b) ==
    IF a = 0 THEN b
    ELSE IF b = 0 THEN a
    ELSE ((a + b) % 2) + 2 * BitXor(a \div 2, b \div 2)
RECURSIVE BitAnd(_, _)
BitAnd(a, b) ==
    IF a = 0 \/ b = 0 THEN 0
    ELSE (a % 2) * (b % 2) + 2 * BitAnd(a \div 2, b \div 2)

\* The sum modulo 2^32 of a sequence of words (wrapping_add).
AddWords(ws) ==
    LET RECURSIVE SumHalves(_, _)
        SumHalves(rest, half) ==
            IF rest = <<>> THEN 0
            ELSE Head(rest)[half] + SumHalves(Tail(rest), half)
        lo == SumHalves(ws, 2)
        hi == SumHalves(ws, 1) + lo \div 65536
    IN  <<hi % 65536, lo % 65536>>

\* The exclusive or of three words, and a word rotated to the right by k
\* bits (rotate_right).
Xor3(a, b, c) ==
    <<BitXor(BitXor(a[1], b[1]), c[1]), BitXor(BitXor(a[2], b[2]), c[2])>>
Rotr(a, k) ==
    LET hi == IF k < 16 THEN a[1] ELSE a[2]
        lo == IF k < 16 THEN a[2] ELSE a[1]
        r == k % 16
    IN  <<hi \div 2^r + (lo % 2^r) * 2^(16 - r),
          lo \div 2^r + (hi % 2^r) * 2^(16 - r)>>

\* The initial hash value and the round constants of SHA-256.
SHA256_H0 ==
    <<<<27145, 58983>>, <<47975, 44677>>, <<15470, 62322>>, <<42319, 62778>>,
      <<20750, 21119>>, <<39685, 26764>>, <<8067, 55723>>, <<23520, 52505>>>>

SHA256_K ==
    <<<<17034, 12184>>, <<28983, 17553>>, <<46528, 64463>>, <<59829, 56229>>,
      <<14678, 49755>>, <<23025, 4593>>, <<37439, 33444>>, <<43804, 24277>>,
      <<55303, 43672>>, <<4739, 23297>>, <<9265, 34238>>, <<21772, 32195>>,
      <<29374, 23924>>, <<32990, 45566>>, <<39900, 1703>>, <<49563, 61812>>,
      <<58523, 27073>>, <<61374, 18310>>, <<4033, 40390>>, <<9228, 41420>>,
      <<11753, 11375>>, <<19060, 33962>>, <<23728, 43484>>, <<30457, 35034>>,
      <<38974, 20818>>, <<43057, 50797>>, <<45059, 10184>>, <<48985, 32711>>,
      <<50912, 3059>>, <<54695, 37191>>, <<1738, 25425>>, <<5161, 10599>>,
      <<10167, 2693>>, <<11803, 8504>>, <<19756, 28156>>, <<21304, 3347>>,
      <<25866, 29524>>, <<30314, 2747>>, <<33218, 51502>>, <<37490, 11397>>,
      <<41663, 59553>>, <<43034, 26187>>, <<49739, 35696>>, <<51052, 20899>>,
      <<53650, 59417>>, <<54937, 1572>>, <<62478, 13701>>, <<4202, 41072>>,
      <<6564, 49430>>, <<7735, 27656>>, <<10056, 30540>>, <<13488, 48309>>,
      <<14620, 3251>>, <<20184, 43594>>, <<23452, 51791>>, <<26670, 28659>>,
      <<29839, 33518>>, <<30885, 25455>>, <<33992, 30740>>, <<36039, 520>>,
      <<37054, 65530>>, <<42064, 27883>>, <<48889, 41975>>, <<50801, 30962>>>>

\* The message schedule of one 64-byte block: w, which holds words 1..lo-1,
\* grown by the words lo..hi.
RECURSIVE Sha256Schedule(_, _, _)
Sha256Schedule(w, lo, hi) ==
    LET Shr(a, k) == <<a[1] \div 2^k, a[2] \div 2^k + (a[1] % 2^k) * 2^(16 - k)>>
        s0 == Xor3(Rotr(w[lo - 15], 7), Rotr(w[lo - 15], 18), Shr(w[lo - 15], 3))
        s1 == Xor3(Rotr(w[lo - 2], 17), Rotr(w[lo - 2], 19), Shr(w[lo - 2], 10))
        mid == (lo + hi) \div 2
    IN  IF lo = hi
        THEN Append(w, AddWords(<<s1, w[lo - 7], s0, w[lo - 16]>>))
        ELSE LET first == Sha256Schedule(w, lo, mid)   \* computed first
             IN  IF Len(first) = mid THEN Sha256Schedule(first, mid + 1, hi)
                 ELSE first

\* Rounds lo..hi of the compression function on the working variables s.
RECURSIVE Sha256Rounds(_, _, _, _)
Sha256Rounds(s, w, lo, hi) ==
    LET S0 == Xor3(Rotr(s[1], 2), Rotr(s[1], 13), Rotr(s[1], 22))
        S1 == Xor3(Rotr(s[5], 6), Rotr(s[5], 11), Rotr(s[5], 25))
        Ch(h) == BitXor(BitAnd(s[5][h], s[6][h]), BitAnd(65535 - s[5][h], s[7][h]))
        Maj(h) == BitXor(BitXor(BitAnd(s[1][h], s[2][h]), BitAnd(s[1][h], s[3][h])),
                         BitAnd(s[2][h], s[3][h]))
        t1 == AddWords(<<s[8], S1, <<Ch(1), Ch(2)>>, SHA256_K[lo], w[lo]>>)
        t2 == AddWords(<<S0, <<Maj(1), Maj(2)>> >>)
        mid == (lo + hi) \div 2
    IN  IF lo = hi
        THEN <<AddWords(<<t1, t2>>), s[1], s[2], s[3],
               AddWords(<<s[4], t1>>), s[5], s[6], s[7]>>
        ELSE LET first == Sha256Rounds(s, w, lo, mid)   \* computed first
             IN  IF Len(first) = 8 THEN Sha256Rounds(first, w, mid + 1, hi)
                 ELSE first

\* encode_sha256: the digest of the padded message (a 0x80 byte, zero bytes
\* up to 56 modulo 64, the length in bits as eight bytes), block by block,
\* and hex::encode of it, two lowercase hexadecimal characters a byte.
EncodeSha256(bytes) ==
    LET bits == 8 * Len(bytes)
        padded ==
            bytes \o <<128>> \o [i \in 1..((119 - Len(bytes)) % 64) |-> 0]
            \o <<0, 0, 0, 0, (bits \div 16777216) % 256, (bits \div 65536) % 256,
                 (bits \div 256) % 256, bits % 256>>
        RECURSIVE Blocks(_, _)
        Blocks(h, from) ==
            LET w16 == [j \in 1..16 |->
                          <<padded[from + 4 * j - 4] * 256 + padded[from + 4 * j - 3],
                            padded[from + 4 * j - 2] * 256 + padded[from + 4 * j - 1]>>]
                s == Sha256Rounds(h, Sha256Schedule(w16, 17, 64), 1, 64)
            IN  IF from > Len(padded) THEN h
                ELSE Blocks(<<AddWords(<<h[1], s[1]>>), AddWords(<<h[2], s[2]>>),
                              AddWords(<<h[3], s[3]>>), AddWords(<<h[4], s[4]>>),
                              AddWords(<<h[5], s[5]>>), AddWords(<<h[6], s[6]>>),
                              AddWords(<<h[7], s[7]>>), AddWords(<<h[8], s[8]>>)>>,
                            from + 64)
        digest == Blocks(SHA256_H0, 1)
        HEX_CHARS_LOWER == <<"0", "1", "2", "3", "4", "5", "6", "7",
                             "8", "9", "a", "b", "c", "d", "e", "f">>
        Nibble(i) == LET word == digest[(i - 1) \div 8 + 1]
                         half == word[((i - 1) % 8) \div 4 + 1]
                     IN  (half \div 16^(3 - ((i - 1) % 4))) % 16
    IN  [i \in 1..64 |-> HEX_CHARS_LOWER[Nibble(i) + 1]]

\* LoginState::password_encoding taking type "3" for an unknown type
PasswordEncodingOf_ThreeIsUnknown(login_state) ==
    CASE login_state.password_type = "0" -> "Base64"
      [] login_state.password_type = "4" -> "Sha256"
      [] OTHER -> "Unknown"

\* LoginState::password_encoding: the encoding named by password_type.
PasswordEncodingOf(login_state) ==
    CASE login_state.password_type = "0" -> "Base64"
      [] login_state.password_type = "3" -> "Base64AfterChange"
      [] login_state.password_type = "4" -> "Sha256"
      [] OTHER -> "Unknown"

\* PasswordEncoder::encode_password
EncodePassword(password, login_state) ==
    CASE PasswordEncodingOf(login_state) \in {"Base64", "Base64AfterChange"} ->
            EncodeBase64(password)
      [] PasswordEncodingOf(login_state) = "Sha256" -> EncodeSha256(password)
      [] PasswordEncodingOf(login_state) = "Unknown" -> EncodeSha256(password)

\* The passwords: "admin", and the strings of at most MaxPasswordLen
\* characters out of "a" and "\u00ff", as their UTF-8 bytes.
Passwords ==
    LET RECURSIVE OfLen(_)
        OfLen(n) ==
            IF n = 0 THEN {<<>>}
            ELSE {p \o c : p \in OfLen(n - 1), c \in {<<97>>, <<195, 191>>}}
    IN  {<<97, 100, 109, 105, 110>>} \cup UNION {OfLen(n) : n \in 0..MaxPasswordLen}

\* The login states with which login reaches encode_password: the scheme
\* code (any string) and, of the other fields, the login status (not logged
\* in, or repeat login required).
LoginStates ==
    [password_type : {"0", "3", "4", "", "999"}, state : {"-1", "-2"}]

InitEncode ==
    /\ session = DefaultSession
    /\ retry_strategy = [max_attempts |-> MaxRetries]
    /\ call \in [pc : {"encode"}, password : Passwords,
                  login_state : LoginStates, encoded : {<<>>}]
    /\ tasks = [t \in Tasks |-> IdleTask]
    /\ lock = FreeLock
    /\ hist = NoHist

\* login encodes the password for the login state it has just read.
EncodeForLogin ==
    /\ call.pc = "encode"
    /\ call' = [call EXCEPT
                   !.pc = "encode_again",
                   !.encoded = Append(@, EncodePassword(call.password,
                                                        call.login_state))]
    /\ UNCHANGED <<session, retry_strategy, task_vars>>

\* A later login with the same password: the device reports the same scheme
\* code, the rest of the login state is whatever it is then.
EncodeForLoginAgain ==
    /\ call.pc = "encode_again"
    /\ \E ls \in LoginStates :
          /\ ls.password_type = call.login_state.password_type
          /\ call' = [call EXCEPT
                         !.pc = "encoded",
                         !.login_state = ls,
                         !.encoded = Append(@, EncodePassword(call.password, ls))]
    /\ UNCHANGED <<session, retry_strategy, task_vars>>

NextEncode ==
    \/ EncodeForLogin
    \/ EncodeForLoginAgain

SpecEncode == InitEncode /\ [][NextEncode]_vars


\* ------------------------------------------------- home page extraction

\* The meta tags the home pages are made of: csrf_token tags with a token,
\* with an empty content and without content, a tag whose content contains
\* "csrf", tags with a long and with a short alphanumeric content, and a tag
\* whose content is "a" followed by ten two-byte letters (11 characters,
\* 21 bytes, byte 10 inside a letter).
HtmlMetaTags ==
    {Meta(Some("csrf_token"), Some(Content("tokA", 32, TRUE, FALSE))),
     Meta(Some("csrf_token"), Some(Content("", 0, TRUE, FALSE))),
     Meta(Some("csrf_token"), None),
     Meta(Some("x"), Some(Content("csrf-tokB", 9, FALSE, TRUE))),
     Meta(None, Some(Content("tokC", 32, TRUE, FALSE))),
     Meta(None, Some(Content("short", 5, TRUE, FALSE))),
     Meta(None, Some([Content("tokU", 21, TRUE, FALSE)
                         EXCEPT !.chars = 11, !.cut10 = FALSE]))}

\* try_homepage_token has read a home page of at most MaxMetas meta tags.
InitHtml ==
    /\ session = DefaultSession
    /\ retry_strategy = [max_attempts |-> MaxRetries]
    /\ \E n \in 0..MaxMetas :
          call \in [pc : {"extract"}, page : [1..n -> HtmlMetaTags],
                    result : {NoResult}, panicked : {FALSE}]
    /\ tasks = [t \in Tasks |-> IdleTask]
    /\ lock = FreeLock
    /\ hist = NoHist

\* extract_token_from_html runs on the page. When the heuristic picks a
\* content, debug! slices &content[..10] if DEBUG events are enabled, which
\* panics when byte 10 is not a character boundary.
ExtractHomePage ==
    LET metas == call.page
        named == FirstNonEmpty(metas, SelectNamedCsrf(metas))
        marked == FirstNonEmpty(metas, SelectContentCsrf(metas))
        picked == SelectHeuristic(metas)
        slice_panics == /\ named = None /\ marked = None /\ picked # {}
                        /\ ~Unwrap(metas[Min(picked)].content).cut10
    IN  /\ call.pc = "extract"
        /\ \/ call' = [call EXCEPT !.pc = "extracted",
                                    !.result = ExtractTokenFromHtml(metas)]
           \/ /\ slice_panics
              /\ call' = [call EXCEPT !.pc = "extracted", !.panicked = TRUE]
        /\ UNCHANGED <<session, retry_strategy, task_vars>>

NextHtml == ExtractHomePage

SpecHtml == InitHtml /\ [][NextHtml]_vars


\* ------------------------------------------------------------- properties

AllRetryable(trace) == \A i \in 1..Len(trace) : trace[i] = "retry"

\* C1: when execute returns after an operation that failed on every
\* invocation with a retryable error, and max_attempts = n >= 1, the
\* operation was invoked exactly n times and the value returned is the error
\* of the last invocation.
C1_AlwaysRetryableRunsMaxAttempts ==
    (/\ call.pc = "exec_ret"
     /\ retry_strategy.max_attempts >= 1
     /\ AllRetryable(call.trace))
    => /\ Len(call.trace) = retry_strategy.max_attempts
       /\ ~call.last_outcome.ok
       /\ call.exec_result = Err(call.last_outcome.err)

\* Three attempts, all failing retryably, with different errors.
C1_Witness ==
    /\ call.pc = "exec_ret"
    /\ retry_strategy.max_attempts = 3
    /\ call.trace = <<"retry", "retry", "retry">>
    /\ Cardinality(call.produced) >= 2
    /\ call.exec_result = Err(call.last_outcome.err)

\* Whether the response the call holds carries a token-class device error.
RespHasTokenError ==
    /\ call.resp.read
    /\ IsSome(CheckForApiError(call.resp.body))
    /\ IsTokenError(ErrorApi(Unwrap(CheckForApiError(call.resp.body))))

\* C2 (as claimed): a with_retry call whose first response body carried a
\* token-class error made exactly one refresh_csrf_token call and exactly one
\* replay.
C2_ExactlyOneRefreshAndOneReplay ==
    (call.pc = "done" /\ call.tok_err)
    => (call.refreshes = 1 /\ call.replays = 1)

\* C2 (amended): after the first response body carried a token-class error
\* the call makes exactly one refresh_csrf_token call; it replays the request
\* exactly once if that refresh succeeded and not at all if it failed, the
\* refresh error then being the call's result; a token-class error in the
\* replayed response is returned without a further refresh or replay.
C2_OneRefreshThenOneReplay ==
    /\ call.tok_err => (call.refreshes <= 1 /\ call.replays <= 1)
    /\ (call.pc = "done" /\ call.tok_err)
       => /\ call.refreshes = 1
          /\ call.replays = (IF call.pass = 2 THEN 1 ELSE 0)
          /\ call.pass = 1
             => (~call.result.ok /\ call.result.err.kind \in {"Session", "Http"})
          /\ (call.pass = 2 /\ call.exec_result.ok /\ RespHasTokenError)
             => /\ ~call.result.ok
                /\ call.result.err =
                     ErrorApi(Unwrap(CheckForApiError(call.resp.body)))

\* The replay's response carries a token-class error again, and the call
\* ends with it.
C2_Witness ==
    /\ call.pc = "done"
    /\ call.op = "post_retry"
    /\ call.tok_err
    /\ call.pass = 2
    /\ RespHasTokenError
    /\ call.result = Err(ErrorApi(SESSION_TOKEN_ERROR))
    /\ call.refreshes = 1
    /\ call.replays = 1

\* C3: an invocation that fails with a non-retryable error is the last one of
\* its execute: the error is returned at once, with no sleep after it (the
\* sleeps are those after the retryable failures before it).
C3_NonRetryableReturnsAtOnce ==
    \A i \in 1..Len(call.trace) :
        call.trace[i] = "fatal"
        => /\ i = Len(call.trace)
           /\ call.pc \notin {"exec", "sleep"}
           /\ call.exec_result = Err(call.last_outcome.err)
           /\ call.sleeps = i - 1

\* The first invocation fails non-retryably: one invocation, no sleep.
C3_Witness ==
    /\ call.pc = "exec_ret"
    /\ call.trace = <<"fatal">>
    /\ call.sleeps = 0
    /\ ~call.exec_result.ok
    /\ retry_strategy.max_attempts = 3

\* C4: an invocation that succeeds is the last one of its execute, and its
\* value is what execute returns: after k retryable failures (k <
\* max_attempts) and a success the operation was invoked exactly k + 1 times.
C4_SuccessReturnsAtOnce ==
    \A i \in 1..Len(call.trace) :
        call.trace[i] = "ok"
        => /\ i = Len(call.trace)
           /\ i <= retry_strategy.max_attempts
           /\ call.pc \notin {"exec", "sleep"}
           /\ call.last_outcome.ok
           /\ call.exec_result = call.last_outcome

\* Two retryable failures, then a success.
C4_Witness ==
    /\ call.pc = "exec_ret"
    /\ call.trace = <<"retry", "retry", "ok">>
    /\ call.exec_result.ok
    /\ call.sleeps = 2

\* C5: when a response has status 401 or 403, execute returns the
\* Authentication error with the session already invalidated, and the session
\* is still so when the logical call ends.
C5_AuthStatusInvalidatesSession ==
    (call.pc \in {"exec_ret", "done"} /\ call.status \in {401, 403})
    => /\ call.exec_result = Err(ErrAuthentication)
       /\ session = DefaultSession
       /\ (call.pc = "done" => call.result = Err(ErrAuthentication))

\* A 401 on a request of an authenticated session that sent a token.
C5_Witness ==
    /\ call.pc = "exec_ret"
    /\ call.status = 401
    /\ call.auth_before
    /\ call.token_sent # ""
    /\ session.csrf_token = None
    /\ ~session.is_authenticated

\* C6: under every interleaving of the concurrent SessionManager callers, a
\* session state with is_authenticated = true has its username and its
\* last_auth_time set.
C6_AuthenticatedHasUserAndTime ==
    session.is_authenticated =>
        (IsSome(session.username) /\ IsSome(session.last_auth_time))

\* C6 witness: a token was acquired, a mark_authenticated has returned
\* leaving the session authenticated, and another task is waiting for the
\* write lock to clear the session.
C6_Witness ==
    /\ session.is_authenticated
    /\ hist.acquired # {}
    /\ IsSome(session.csrf_token)
    /\ \E t \in Tasks, u \in Tasks :
          /\ tasks[t].op = "mark_authenticated" /\ tasks[t].pc = "done"
          /\ tasks[u].op \in {"clear_session", "invalidate_session"}
          /\ tasks[u].pc = "wlock"

\* All the concurrent callers have returned.
AllReturned == \A t \in Tasks : tasks[t].pc = "done"

\* C7: when the callers of get_csrf_token on an empty cache have all
\* returned, at least one acquisition has stored a token, every caller holds
\* a non-empty token that an acquisition stored, and the cache holds the
\* non-empty token of the acquisition that wrote last.
C7_ConcurrentCallersAllGetAToken ==
    AllReturned =>
        /\ hist.acquired # {}
        /\ \A t \in Tasks :
              /\ tasks[t].result.ok
              /\ tasks[t].result.val # ""
              /\ tasks[t].result.val \in hist.acquired
        /\ IsSome(session.csrf_token)
        /\ Unwrap(session.csrf_token) # ""
        /\ session.csrf_token = hist.last_acquired

\* C7 witness: two callers both missed the cache, both acquired, and came
\* back with different tokens.
C7_Witness ==
    /\ AllReturned
    /\ \E t \in Tasks, u \in Tasks :
          /\ ~tasks[t].hit /\ ~tasks[u].hit
          /\ tasks[t].reqs # <<>> /\ tasks[u].reqs # <<>>
          /\ tasks[t].result.ok /\ tasks[u].result.ok
          /\ tasks[t].result.val # tasks[u].result.val

\* The cached token is absent or non-empty; a get_csrf_token that found a
\* cached token sent no request; one that did not sent a request and, when it
\* returns a token, has stored that token; the token returned is not empty.
C8_CacheAndReturn ==
    /\ session.csrf_token = None \/ Unwrap(session.csrf_token) # ""
    /\ \A t \in Tasks :
          (tasks[t].op = "get_csrf_token" /\ tasks[t].pc = "done") =>
              /\ tasks[t].hit => (tasks[t].reqs = <<>> /\ tasks[t].result.ok)
              /\ ~tasks[t].hit => tasks[t].reqs # <<>>
              /\ (~tasks[t].hit /\ tasks[t].result.ok) =>
                    /\ tasks[t].stored = Some(tasks[t].result.val)
                    /\ tasks[t].result.val \in hist.acquired
              /\ tasks[t].result.ok => tasks[t].result.val # ""

\* A get_csrf_token that returns from under the read guard returns the token
\* the cache holds at that moment and leaves the cache as it is.
C8_HitReturnsCached ==
    \A t \in Tasks :
        (tasks[t].pc = "read" /\ tasks'[t].pc = "done") =>
            /\ tasks'[t].result = Ok(Unwrap(session.csrf_token))
            /\ session' = session

\* C8: get_csrf_token returns the cached token without a network request
\* when one is cached, otherwise acquires one and stores it before
\* returning; the cached token is always absent or non-empty and
\* get_csrf_token never returns an empty token.
C8_GetCsrfTokenCachesNonEmpty ==
    []C8_CacheAndReturn /\ [][C8_HitReturnsCached]_vars

\* C8 witness: one get_csrf_token has returned the cached token and another
\* has missed the cache, acquired a token and returned it.
C8_Witness ==
    \E t \in Tasks, u \in Tasks :
        /\ tasks[t].op = "get_csrf_token" /\ tasks[t].pc = "done"
        /\ tasks[t].hit
        /\ tasks[u].op = "get_csrf_token" /\ tasks[u].pc = "done"
        /\ ~tasks[u].hit /\ tasks[u].result.ok

\* C9 (as claimed): an error execute returns was produced by an invocation
\* of the operation.
C9_ErrorsComeFromTheOperation ==
    (call.pc = "exec_ret" /\ ~call.exec_result.ok)
    => call.exec_result.err \in call.produced

\* C10 (as claimed): the client's max_attempts is at least 1, so every
\* execute invokes its operation at least once.
C10_MaxAttemptsAtLeastOne ==
    /\ retry_strategy.max_attempts >= 1
    /\ (call.pc = "exec_ret" => Len(call.trace) >= 1)

\* The login call has ended after parsing the state-login record.
LoginEndedOnState ==
    /\ call.op = "login" /\ call.pc = "done" /\ call.req = "plain"
    /\ call.state_body.kind = "login_state"

\* C11: when state-login reports the account as logged in, login returns Ok
\* and neither encodes the password nor sends the POST to /api/user/login.
C11_AlreadyLoggedInSkipsPost ==
    (LoginEndedOnState /\ IsLoggedIn(call.state_body))
    => /\ call.result = Ok("unit")
       /\ call.sent_token = 0
       /\ ~call.encoded

\* C11 witness: login has returned on a logged-in state that the second
\* attempt of the state-login GET brought, without any POST.
C11_Witness ==
    /\ LoginEndedOnState
    /\ IsLoggedIn(call.state_body)
    /\ call.sent_plain = 2
    /\ call.sent_token = 0
    /\ call.result.ok

\* C12 (as claimed): when state-login reports the account as locked and not
\* logged in, login fails with an error that is not retryable, and neither
\* encodes the password nor sends the login POST.
C12_LockedFailsNonRetryable ==
    (LoginEndedOnState /\ ~IsLoggedIn(call.state_body) /\ IsLocked(call.state_body))
    => /\ ~call.result.ok
       /\ ~IsRetryable(call.result.err)
       /\ call.sent_token = 0
       /\ ~call.encoded

\* The login call has ended after reading the response to its POST.
LoginEndedOnResponse ==
    /\ call.op = "login" /\ call.pc = "done" /\ call.req = "token"
    /\ call.exec_result.ok /\ call.resp.read

\* A body that reports a device error: an <error><code> envelope, or a
\* <response> whose ErrorCode is a non-zero number and that has no OK.
IsDeviceErrorBody(body) ==
    \/ body.kind = "error"
    \/ /\ body.kind = "response" /\ body.has_code /\ body.code_num
       /\ body.code # 0 /\ ~body.has_ok

\* C13 (as claimed): a login whose POST response is a device error, in
\* either form, does not call mark_authenticated and does not set
\* is_authenticated.
C13_DeviceErrorNeverMarksAuthenticated ==
    (LoginEndedOnResponse /\ IsDeviceErrorBody(call.resp.body))
    => /\ ~call.marked
       /\ session.is_authenticated => call.auth_at_start

\* The kinds the four login rejections are returned as.
LoginRejections ==
    {<<USERNAME_WRONG, "InvalidUsername">>, <<PASSWORD_WRONG, "InvalidPassword">>,
     <<USERNAME_PWD_WRONG, "InvalidCredentials">>,
     <<USERNAME_PWD_OVERRUN, "TooManyLoginAttempts">>}

\* The login POST was answered with <response><ErrorCode>c</ErrorCode>, c
\* being one of the four rejection codes.
LoginRejected ==
    /\ LoginEndedOnResponse
    /\ call.resp.body.kind = "response" /\ ~call.resp.body.has_ok
    /\ call.resp.body.has_code /\ call.resp.body.code_num
    /\ \E p \in LoginRejections : call.resp.body.code = p[1]

StatusClassification ==
    \A st \in 100..999 :
        LET c == CheckResponseStatus(DefaultSession, st).result IN
        /\ StatusIsSuccess(st) => c.ok
        /\ st \in {401, 403}
           => (~c.ok /\ c.err.kind = "Authentication" /\ ~IsRetryable(c.err))
        /\ (StatusIsClientError(st) /\ st \notin {401, 403})
           => (~c.ok /\ c.err = MkErr("Api", st, "") /\ ~IsRetryable(c.err))
        /\ StatusIsServerError(st)
           => (~c.ok /\ c.err = MkErr("Api", st, "") /\ IsRetryable(c.err))

\* C15: check_response_status classifies every status as above; hence an
\* execute whose request was answered 5xx every time has made max_attempts
\* attempts when it returns, and one whose request was answered 4xx has made
\* exactly one.
C15_StatusDecidesAttempts ==
    /\ StatusClassification
    /\ (call.pc = "exec_ret" /\ call.trace # <<>>)
       => /\ call.only5xx
             => /\ Len(call.trace) = retry_strategy.max_attempts
                /\ ~call.exec_result.ok
                /\ call.exec_result.err.kind = "Api"
                /\ StatusIsServerError(call.exec_result.err.code)
          /\ call.only4xx
             => /\ Len(call.trace) = 1
                /\ call.sleeps = 0
                /\ ~call.exec_result.ok
                /\ ~IsRetryable(call.exec_result.err)

\* C15 witness: with max_attempts = 3 a POST answered 500 three times has
\* been attempted three times and ends with Api{500}.
C15_Witness ==
    /\ call.pc = "exec_ret"
    /\ call.op = "post_check"
    /\ retry_strategy.max_attempts = 3
    /\ call.only5xx
    /\ call.sent_token = 3
    /\ call.sleeps = 2
    /\ call.exec_result = Err(MkErr("Api", 500, ""))

\* The known device codes with the kind and the retryable flag claimed.
KnownCodes ==
    {<<CSRF_TOKEN_ERROR, "CsrfTokenInvalid", TRUE>>,
     <<SESSION_TOKEN_ERROR, "SessionTokenInvalid", TRUE>>,
     <<NO_RIGHTS, "LoginRequired", FALSE>>,
     <<USERNAME_WRONG, "InvalidUsername", FALSE>>,
     <<PASSWORD_WRONG, "InvalidPassword", FALSE>>,
     <<ALREADY_LOGIN, "AlreadyLoggedIn", FALSE>>,
     <<USERNAME_PWD_WRONG, "InvalidCredentials", FALSE>>,
     <<USERNAME_PWD_OVERRUN, "TooManyLoginAttempts", FALSE>>}

\* Error::api on the known codes: the kind, its retryable flag, and the
\* kinds being pairwise distinct.
ErrorApiOnKnownCodes ==
    /\ \A p \in KnownCodes :
          /\ ErrorApi(p[1]) = MkErr(p[2], 0, "")
          /\ IsRetryable(ErrorApi(p[1])) = p[3]
    /\ \A p \in KnownCodes, q \in KnownCodes :
          p[1] # q[1] => ErrorApi(p[1]).kind # ErrorApi(q[1]).kind

\* The call ended on a response that reports device code c to a handler that
\* passes it to Error::api: an envelope read by check_xml_for_errors in its
\* first pass, or the ErrorCode of a login / logout response.
EndedOnCode(c) ==
    /\ call.pc = "done" /\ call.exec_result.ok /\ call.resp.read
    /\ call.resp.body.code = c
    /\ \/ /\ call.op \in {"get_check", "post_check"}
          /\ call.resp.body.kind = "error"
       \/ /\ call.op \in {"login", "logout"} /\ call.req = "token"
          /\ call.resp.body.kind = "response" /\ ~call.resp.body.has_ok
          /\ call.resp.body.has_code /\ call.resp.body.code_num

\* C16: Error::api maps 125002, 125003, 100003, 108001, 108002, 108003,
\* 108006 and 108007 to pairwise distinct kinds, the first two retryable and
\* the others not; a call that ends on one of these codes returns that kind.
C16_ErrorApiMapsKnownCodes ==
    /\ ErrorApiOnKnownCodes
    /\ \A p \in KnownCodes :
          EndedOnCode(p[1])
          => /\ call.result = Err(MkErr(p[2], 0, ""))
             /\ IsRetryable(call.result.err) = p[3]

\* C16 witness: a logout answered with ErrorCode 100003 has returned
\* LoginRequired.
C16_Witness ==
    /\ EndedOnCode(NO_RIGHTS)
    /\ call.op = "logout"
    /\ call.result = Err(MkErr("LoginRequired", 0, ""))

\* The call ended on a readable first-pass response whose body is an
\* <error><code> envelope, handed to check_xml_for_errors.
EndedOnEnvelope ==
    /\ call.pc = "done" /\ call.exec_result.ok /\ call.resp.read
    /\ call.op \in {"get_check", "post_check", "get_auth_retry", "post_retry"}
    /\ call.pass = 1 /\ ~call.tok_err
    /\ call.resp.body.kind = "error"

\* C17 (as claimed): an <error><code> envelope whose code is not a
\* recognized device code is surfaced as the non-retryable error
\* Api{code}, never as a successful payload.
C17_UnknownCodeSurfacesAsApiError ==
    (EndedOnEnvelope /\ call.resp.body.code \notin ApiErrorCodes)
    => /\ ~CheckXmlForErrors(session, call.resp.body).result.ok
       /\ call.result = Err(MkErr("Api", call.resp.body.code, ""))
       /\ ~IsRetryable(call.result.err)

\* C18: no invocation of an operation handed to execute fails with
\* CsrfTokenInvalid or SessionTokenInvalid, so execute neither sleeps on such
\* an error nor returns one; token-class errors come from the response body
\* after execute has returned, and refresh_csrf_token is called only by the
\* refresh-and-replay branch that follows such a body.
C18_NoTokenErrorInsideExecute ==
    /\ \A e \in call.produced : ~IsTokenError(e)
    /\ ~call.last_outcome.ok => ~IsTokenError(call.last_outcome.err)
    /\ IsSome(call.last_error) => ~IsTokenError(Unwrap(call.last_error))
    /\ (call.pc = "exec_ret" /\ ~call.exec_result.ok)
       => ~IsTokenError(call.exec_result.err)
    /\ call.inner = 1
    /\ call.refreshes > 0 => call.tok_err
    /\ (call.pc = "done" /\ ~call.result.ok /\ IsTokenError(call.result.err))
       => (call.exec_result.ok /\ RespHasTokenError)

\* C18 witness: a replay that needed a backoff for a retryable failure was
\* answered with a token-class error in the body, which is the call's result;
\* no invocation produced it.
C18_Witness ==
    /\ call.pc = "done"
    /\ call.tok_err /\ call.pass = 2
    /\ call.sleeps >= 1
    /\ call.produced # {}
    /\ ~call.result.ok /\ IsTokenError(call.result.err)

\* The primary requests a logical call has sent stay within its passes: one
\* execute for a call that does not replay, two for post_xml_with_retry and
\* get_authenticated_with_retry (the original pass and the replay), each
\* sending at most max_attempts requests; and at most one refresh.
SendsBounded ==
    /\ call.op \in RetryOps
       => /\ call.sent_token <= 2 * retry_strategy.max_attempts
          /\ call.pass = 1 => call.sent_token <= retry_strategy.max_attempts
          /\ call.refreshes <= 1 /\ call.replays <= 1
    /\ call.op \notin RetryOps
       => /\ call.sent_plain <= retry_strategy.max_attempts
          /\ call.sent_token <= retry_strategy.max_attempts
          /\ call.refreshes = 0

\* A logical call is under way.
CallUnderWay == call.pc \notin {"idle", "done"}

\* The steps a call in state c can still take, at most: the executes still
\* to come after the current one (the replay of a with_retry call, the POST
\* of login) count 2 * max_attempts + 6 steps each, and within the current
\* execute every attempt left counts two (the invocation and its sleep).
StepsLeft(c) ==
    LET max == retry_strategy.max_attempts
        later == IF \/ c.op \in RetryOps /\ c.pass = 1
                    \/ c.op = "login" /\ c.req = "plain"
                 THEN 2 * max + 6 ELSE 0
    IN  CASE c.pc = "exec" -> later + 2 * (max - c.attempt) + 5
          [] c.pc = "sleep" -> later + 2 * (max - c.attempt) + 4
          [] c.pc = "exec_ret" -> later + 2
          [] c.pc = "body" -> later + 1
          [] c.pc = "refresh" -> later
          [] OTHER -> 0

\* C19: every logical call terminates, whatever the device answers: a
\* with_retry call sends its primary request at most 2 * max_attempts times
\* and refreshes at most once; a call under way can always take a step, and
\* every step it takes lowers the number of steps left, which is a natural
\* number, so the call returns after finitely many steps.
C19_EveryCallTerminates ==
    /\ []SendsBounded
    /\ [](CallUnderWay => (StepsLeft(call) >= 0 /\ ENABLED CallStep))
    /\ [][CallUnderWay => StepsLeft(call') < StepsLeft(call)]_vars

\* C19 witness: with max_attempts = 3, every answer to the request was either
\* a retryable failure or a token-class error; the call has sent it six times
\* and returned the token-class error of the replay.
C19_Witness ==
    /\ call.pc = "done"
    /\ call.op = "post_retry"
    /\ retry_strategy.max_attempts = 3
    /\ call.sent_token = 6
    /\ call.tok_err /\ call.pass = 2
    /\ ~call.result.ok /\ IsTokenError(call.result.err)

\* A call that ended on a first response body carrying a device error with
\* one of the given codes returned that error at once: no refresh, no replay,
\* and the response read is the only one an invocation obtained.
ReturnedImmediately(codes) ==
    (EndedOnEnvelope /\ call.resp.body.code \in codes)
    => /\ call.result = Err(ErrorApi(call.resp.body.code))
       /\ ~IsRetryable(call.result.err)
       /\ call.refreshes = 0 /\ call.replays = 0
       /\ call.oks = 1

\* The codes of the device errors that are not token-class.
OtherDeviceCodes ==
    {c \in ApiErrorCodes \cup {999999} : ~IsTokenError(ErrorApi(c))}

\* C20 (as claimed): a response body carrying a device error other than
\* CsrfTokenInvalid and SessionTokenInvalid makes the call return that error
\* immediately, without refresh, replay or retry, after exactly one request
\* that obtained a response.
C20_OtherDeviceErrorReturnedImmediately ==
    ReturnedImmediately(OtherDeviceCodes)

\* The token of the first acquisition stage that gave one.
FirstSuccess(stages) ==
    LET won == {i \in 1..Len(stages) : IsSome(stages[i])} IN
    IF won = {} THEN None
    ELSE stages[CHOOSE i \in won : \A j \in won : i <= j]

\* The stages of every acquisition are requested in order, the home page
\* only after the token endpoint failed, and the acquisition ends with the
\* first stage that gives a token: that token is the one it goes on to
\* write, has written and returns.
StagesInOrder ==
    \A t \in Tasks :
        LET k == tasks[t]
            n == Len(k.stages)
        IN  /\ k.reqs \in {<<>>, <<"api">>, <<"api", "home">>}
            /\ Len(k.reqs) = n
            /\ n = 2 => k.stages[1] = None
            /\ k.pc = "home_send" => (n = 1 /\ k.stages[1] = None)
            /\ (k.pc \in {"wlock", "write"} /\ k.write.kind = "acquired")
               => (n >= 1 /\ k.stages[n] = Some(k.write.token))
            /\ (k.pc = "done" /\ n >= 1 /\ IsSome(FirstSuccess(k.stages)))
               => /\ k.stages[n] = FirstSuccess(k.stages)
                  /\ k.result = Ok(Unwrap(k.stages[n]))
                  /\ k.stored = k.stages[n]
            /\ (k.pc = "done" /\ n >= 1 /\ FirstSuccess(k.stages) = None)
               => (n = 2 /\ ~k.result.ok /\ k.stored = None)

\* The cache write of an acquisition stores the token of its first stage
\* that succeeded.
CommitsFirstSuccess ==
    \A t \in Tasks :
        (tasks[t].pc = "write" /\ tasks[t].write.kind = "acquired"
         /\ tasks'[t].pc = "done")
        => session'.csrf_token = FirstSuccess(tasks[t].stages)

\* C21: refresh_csrf_token requests /api/webserver/token first and the home
\* page only if that stage failed; when the first stage succeeds the home
\* page is never requested, and the token committed to the cache is the one
\* of the first stage that succeeded.
C21_StagesInOrderFirstSuccessWins ==
    []StagesInOrder /\ [][CommitsFirstSuccess]_vars

\* C21 witness: one acquisition ended at the token endpoint, another fell
\* through to the home page and committed the home page's token, which the
\* cache holds.
C21_Witness ==
    \E t \in Tasks, u \in Tasks :
        /\ tasks[t].pc = "done" /\ tasks[t].reqs = <<"api">>
        /\ tasks[t].result.ok
        /\ tasks[u].pc = "done" /\ tasks[u].reqs = <<"api", "home">>
        /\ tasks[u].stages[1] = None /\ IsSome(tasks[u].stages[2])
        /\ tasks[u].result.ok
        /\ session.csrf_token = tasks[u].stages[2]
        /\ tasks[t].result.val # tasks[u].result.val

\* An acquisition (refresh_csrf_token, or get_csrf_token on an empty cache)
\* has returned after both of its stages failed.
BothStagesFailed(t) ==
    /\ tasks[t].pc = "done"
    /\ tasks[t].reqs = <<"api", "home">>
    /\ tasks[t].stages = <<None, None>>

\* C22 (as claimed): whenever both acquisition stages fail, whatever the
\* cause of each failure, refresh_csrf_token fails with Error::Session.
C22_BothStagesFailedIsSessionError ==
    \A t \in Tasks :
        BothStagesFailed(t)
        => (~tasks[t].result.ok /\ tasks[t].result.err.kind = "Session")

\* A task is awaiting the device: its request is sent and the response has
\* not been received in full.
AwaitingNetwork(t) == tasks[t].pc \in {"api_send", "home_send"}

\* A step of the lock: a guard is granted, or the block under a guard runs
\* and drops it.
LockStep ==
    \E t \in Tasks :
        \/ AcquireRead(t)
        \/ ReadCache(t)
        \/ AcquireWrite(t)
        \/ WriteState(t)

\* C23: no SessionManager operation holds the session lock, shared or
\* exclusive, while it awaits the network: a guard is held only inside the
\* block that reads or writes the state. Hence a task waiting for the read
\* lock is granted it unless another task is inside its write block, however
\* long an acquisition takes, and whenever a task waits for the lock a step
\* of the lock is possible (no deadlock).
C23_NoLockAcrossNetworkIO ==
    /\ \A t \in Tasks :
          /\ AwaitingNetwork(t) => (t \notin lock.readers /\ lock.writer # t)
          /\ t \in lock.readers => tasks[t].pc = "read"
          /\ lock.writer = t => tasks[t].pc = "write"
          /\ (tasks[t].pc = "rlock" /\ \A u \in Tasks : tasks[u].pc # "write")
             => ENABLED AcquireRead(t)
    /\ (\E t \in Tasks : tasks[t].pc \in {"rlock", "wlock"}) => ENABLED LockStep

\* C23 witness: while one task awaits the home page after its token
\* endpoint request failed, another task holds the read guard, and a cached
\* token is there to be returned.
C23_Witness ==
    \E t \in Tasks, u \in Tasks :
        /\ tasks[t].pc = "home_send"
        /\ tasks[u].pc = "read" /\ u \in lock.readers
        /\ IsSome(session.csrf_token)

\* The session state is consistent: an authenticated session has its user
\* name and time, the cached token is absent or non-empty, guards are held
\* only by tasks inside their read or write block, and a cancelled task
\* holds no guard and has written nothing since it was called.
ConsistentUnderCancellation ==
    /\ session.is_authenticated
       => (IsSome(session.username) /\ IsSome(session.last_auth_time))
    /\ ~session.is_authenticated
       => (session.username = None /\ session.last_auth_time = None)
    /\ session.csrf_token = None \/ Unwrap(session.csrf_token) # ""
    /\ \A t \in Tasks :
          /\ t \in lock.readers => tasks[t].pc = "read"
          /\ lock.writer = t => tasks[t].pc = "write"
          /\ tasks[t].pc = "cancelled" => tasks[t].stored = None

\* Every change of the session state is the whole write block of a task
\* that holds the write guard and returns; a cancellation changes neither
\* the session state nor the lock.
OnlyCompleteWrites ==
    /\ session' # session
       => \E t \in Tasks :
             /\ tasks[t].pc = "write" /\ lock.writer = t
             /\ tasks'[t].pc = "done" /\ lock' = FreeLock
             /\ \E now \in 1..MaxTime :
                   session' = ApplyWrite(session, tasks[t].write, now)
    /\ \A t \in Tasks :
          (tasks[t].pc # "cancelled" /\ tasks'[t].pc = "cancelled")
          => (session' = session /\ lock' = lock)

\* C24: cancelling a caller at any suspension point (awaiting an HTTP
\* response, awaiting the session lock, sleeping in backoff) leaves the
\* session state consistent: a cancelled acquisition commits no token,
\* every change that did happen was a complete write under the write guard,
\* and the is_authenticated / username / last_auth_time invariant holds.
C24_CancellationLeavesSessionConsistent ==
    []ConsistentUnderCancellation /\ [][OnlyCompleteWrites]_vars

\* C24 witness: an acquisition was cancelled while it waited for the write
\* lock with its token extracted, the cache is still empty, a caller was
\* cancelled in its backoff sleep, and the session is authenticated.
C24_Witness ==
    \E t \in Tasks, u \in Tasks :
        /\ tasks[t].pc = "cancelled" /\ tasks[t].write.kind = "acquired"
        /\ tasks[t].write.token \in Tokens
        /\ session.csrf_token = None
        /\ tasks[u].pc = "cancelled" /\ tasks[u].op = "backoff"
        /\ session.is_authenticated

\* C25: when the execute of get, get_authenticated or post_xml returns a
\* 2xx response that carries a non-empty token in one of the headers
\* __RequestVerificationToken, __RequestVerificationTokenone,
\* __RequestVerificationTokentwo, the cache holds the first such value in
\* that order, whatever it held before.
C25_HeaderTokenCachedBeforeReturn ==
    (call.pc = "exec_ret" /\ call.exec_result.ok /\ IsSome(call.hdr_tok))
    => /\ StatusIsSuccess(call.status)
       /\ session.csrf_token = call.hdr_tok

\* C25 witness: a POST sent with the cached token tokA was answered 200 with
\* tokB as the first non-empty token header; the cache now holds tokB.
C25_Witness ==
    /\ call.pc = "exec_ret" /\ call.exec_result.ok
    /\ call.op = "post_check" /\ call.token_sent = "tokA"
    /\ call.hdr_tok = Some("tokB")
    /\ session.csrf_token = Some("tokB")

\* min(max_delay, initial_delay * backoff_multiplier^k) in whole
\* milliseconds.
CappedBackoff(st, k) ==
    LET m == st.backoff_multiplier
        grown == st.initial_delay * Pow(m.num, k)
    IN  IF grown >= st.max_delay * Pow(m.den, k) THEN st.max_delay
        ELSE CHOOSE d \in 0..st.max_delay :
                 /\ d * Pow(m.den, k) <= grown
                 /\ grown < (d + 1) * Pow(m.den, k)

\* Without jitter the delay slept after attempt k is the capped backoff of
\* k, which never exceeds max_delay.
DelaysAreCappedBackoff ==
    ~retry_strategy.jitter
    => \A i \in 1..Len(call.delays) :
          /\ call.delays[i] = CappedBackoff(retry_strategy, i - 1)
          /\ call.delays[i] <= retry_strategy.max_delay

DelaysNonDecreasing ==
    \A i \in 1..Len(call.delays), j \in 1..Len(call.delays) :
        i <= j => call.delays[i] <= call.delays[j]

TransientTransportErrors == {ErrHttp("timeout"), ErrHttp("connect")}

\* C27: an HTTP timeout or connection failure of an attempt is retryable,
\* and the timeout is per attempt: an execute whose every attempt timed out
\* or failed to connect made max_attempts attempts with a backoff sleep
\* between each two, and returns the error of the last one.
C27_TimeoutsAreRetriedPerAttempt ==
    /\ \A e \in TransientTransportErrors : IsRetryable(e)
    /\ (/\ call.pc = "exec_ret"
        /\ call.produced # {}
        /\ call.produced \subseteq TransientTransportErrors
        /\ call.oks = 0)
       => /\ Len(call.trace) = retry_strategy.max_attempts
          /\ AllRetryable(call.trace)
          /\ call.sleeps = retry_strategy.max_attempts - 1
          /\ ~call.exec_result.ok
          /\ call.exec_result.err \in TransientTransportErrors
          /\ call.exec_result = call.last_outcome

\* C27 witness: with max_attempts = 3 a POST was sent three times, each
\* attempt timed out, and execute returned the timeout after two sleeps.
C27_Witness ==
    /\ call.pc = "exec_ret" /\ call.op = "post_check"
    /\ retry_strategy.max_attempts = 3
    /\ call.produced = {ErrHttp("timeout")}
    /\ call.sent_token = 3
    /\ call.sleeps = 2
    /\ call.exec_result = Err(ErrHttp("timeout"))

\* A refresh_csrf_token under way has skipped the cache, and one that has
\* returned has requested the token endpoint first, whatever the cache
\* held, and on success has stored the token it returns.
RefreshAlwaysAcquires ==
    \A t \in Tasks :
        tasks[t].op = "refresh_csrf_token"
        => /\ ~tasks[t].hit
           /\ tasks[t].pc \notin {"rlock", "read"}
           /\ tasks[t].pc = "done"
              => /\ tasks[t].reqs # <<>> /\ tasks[t].reqs[1] = "api"
                 /\ tasks[t].result.ok
                    => tasks[t].stored = Some(tasks[t].result.val)

\* A call of refresh_csrf_token goes straight to the token endpoint request
\* whether or not a token is cached, and its cache write replaces whatever
\* token is cached by the token it returns.
RefreshReplacesCache ==
    \A t \in Tasks :
        /\ (tasks'[t] # tasks[t] /\ tasks[t].pc \in {"idle", "done"}
            /\ tasks'[t].op = "refresh_csrf_token")
           => tasks'[t].pc = "api_send"
        /\ (tasks[t].op = "refresh_csrf_token" /\ tasks[t].pc = "write"
            /\ tasks'[t].pc = "done")
           => /\ tasks'[t].result.ok
              /\ session'.csrf_token = Some(tasks'[t].result.val)

\* C28: refresh_csrf_token performs an acquisition request on every call
\* regardless of whether a token is cached, and when it succeeds the value
\* it returns is the value it wrote into the cache, replacing the previous
\* token.
C28_RefreshIsUnconditional ==
    []RefreshAlwaysAcquires /\ [][RefreshReplacesCache]_vars

\* C28 witness: a get_csrf_token has returned the cached token tokA without
\* a request, and a refresh_csrf_token has since acquired tokB, which the
\* cache now holds in place of tokA.
C28_Witness ==
    \E t \in Tasks, u \in Tasks :
        /\ tasks[u].op = "get_csrf_token" /\ tasks[u].pc = "done"
        /\ tasks[u].hit /\ tasks[u].result = Ok("tokA")
        /\ tasks[t].op = "refresh_csrf_token" /\ tasks[t].pc = "done"
        /\ tasks[t].result = Ok("tokB") /\ tasks[t].stored = Some("tokB")
        /\ session.csrf_token = Some("tokB")
        /\ hist.acquired = {"tokA", "tokB"}

\* Every value a SessionState can take over the tokens, users and times
\* drawn, consistent or not.
SessionStates ==
    [csrf_token : {None} \cup {Some(k) : k \in Tokens},
     is_authenticated : BOOLEAN,
     username : {None} \cup {Some(u) : u \in Users},
     last_auth_time : {None} \cup {Some(n) : n \in 1..MaxTime}]

\* clear_session maps every state to the state with no token, no user, no
\* time and is_authenticated = false, and applying it twice gives what
\* applying it once gives.
ClearIsIdempotent ==
    \A s \in SessionStates :
        /\ ClearSession(s) = [csrf_token |-> None, is_authenticated |-> FALSE,
                              username |-> None, last_auth_time |-> None]
        /\ ClearSession(ClearSession(s)) = ClearSession(s)

\* The write block of a clear_session / invalidate_session call is one step:
\* it takes the session to the cleared state, drops the guard and returns.
ClearIsOneStep ==
    \A t \in Tasks :
        (/\ tasks[t].op \in {"clear_session", "invalidate_session"}
         /\ tasks[t].pc = "write" /\ tasks'[t].pc = "done")
        => /\ lock.writer = t /\ lock' = FreeLock
           /\ session' = DefaultSession
           /\ session' = ClearSession(session)
           /\ session = DefaultSession => session' = session

\* C29: clear_session, and invalidate_session which calls it, set
\* csrf_token, username and last_auth_time to None and is_authenticated to
\* false in one atomic step, and are idempotent: from any starting state,
\* applying them twice yields the same state as applying them once.
C29_ClearSessionAtomicAndIdempotent ==
    /\ [](ClearIsIdempotent /\ session \in SessionStates)
    /\ [][ClearIsOneStep]_vars

\* C29 witness: a token had been acquired, then clear_session and
\* invalidate_session have both returned, and the session is in the cleared
\* state.
C29_Witness ==
    \E t \in Tasks, u \in Tasks :
        /\ tasks[t].op = "clear_session" /\ tasks[t].pc = "done"
        /\ tasks[u].op = "invalidate_session" /\ tasks[u].pc = "done"
        /\ hist.acquired # {}
        /\ session = DefaultSession

\* The cache is empty after a token-class device error on an endpoint that
\* does not replay, after a logout that succeeded, and after a 401 / 403.
ClearedOnInvalidation ==
    /\ (/\ call.pc = "done" /\ call.op \in {"get_check", "post_check"}
        /\ call.exec_result.ok /\ RespHasTokenError)
       => /\ session = DefaultSession
          /\ ~call.result.ok /\ IsTokenError(call.result.err)
          /\ call.refreshes = 0 /\ call.replays = 0
    /\ (call.pc = "done" /\ call.op = "logout" /\ call.result.ok)
       => session = DefaultSession
    /\ (/\ call.pc = "exec_ret" /\ call.status \in {401, 403}
        /\ call.exec_result = Err(ErrAuthentication))
       => session = DefaultSession

\* A token enters the cache only in a step of the closure execute runs
\* (get_csrf_token, or the headers of the response) or in the refresh of a
\* with_retry call; the step that reads a body on an endpoint without
\* replay leaves the cached token as it was or clears it.
TokenReplacedLazily ==
    /\ (session'.csrf_token # None /\ session'.csrf_token # session.csrf_token)
       => \/ call.pc = "exec"
          \/ call.pc = "refresh" /\ call.op \in RetryOps
    /\ (call.pc = "body" /\ call.op \notin RetryOps)
       => session'.csrf_token \in {session.csrf_token, None}

\* C30: the cached token is cleared when a token-class device error is
\* detected on an endpoint without replay and when logout succeeds; that
\* invalidation, like the one after HTTP 401 / 403, makes no token
\* acquisition: the cache stays empty until a later operation's closure
\* calls get_csrf_token.
C30_TokenClearedAndReplacedLazily ==
    []ClearedOnInvalidation /\ [][TokenReplacedLazily]_vars

\* C30 witness: a POST on an endpoint without replay was sent with the
\* cached token, the body carried a token-class error, and the call has
\* returned that error with the cache empty.
C30_Witness ==
    /\ call.pc = "done" /\ call.op = "post_check"
    /\ call.token_sent # ""
    /\ call.exec_result.ok /\ RespHasTokenError
    /\ IsTokenError(call.result.err)
    /\ session.csrf_token = None

\* The encodings of "admin" the tests of auth.rs expect.
AdminBase64 == <<"Y", "W", "R", "t", "a", "W", "4", "=">>
AdminSha256 ==
    <<"8", "c", "6", "9", "7", "6", "e", "5", "b", "5", "4", "1", "0", "4", "1", "5",
      "b", "d", "e", "9", "0", "8", "b", "d", "4", "d", "e", "e", "1", "5", "d", "f",
      "b", "1", "6", "7", "a", "9", "c", "8", "7", "3", "f", "c", "4", "b", "b", "8",
      "a", "8", "1", "f", "6", "f", "2", "a", "b", "4", "4", "8", "a", "9", "1", "8">>

\* The lowercase-hex SHA-256 digest of every password, computed once.
Sha256HexOf == {<<p, EncodeSha256(p)>> : p \in Passwords}
Base64Of == {<<p, EncodeBase64(p)>> : p \in Passwords}

\* The encoding the scheme code selects: base64 for "0" and "3", the
\* SHA-256 digest for "4" and every other code.
SelectedEncoding(password, password_type) ==
    IF password_type \in {"0", "3"}
    THEN CHOOSE e \in Base64Of : e[1] = password
    ELSE CHOOSE e \in Sha256HexOf : e[1] = password

\* The two encodings are what the tests expect of "admin"; a digest is 64
\* lowercase hexadecimal characters, the base64 form has four characters
\* for every three bytes begun.
EncodingsAreGenuine ==
    /\ <<<<97, 100, 109, 105, 110>>, AdminBase64>> \in Base64Of
    /\ <<<<97, 100, 109, 105, 110>>, AdminSha256>> \in Sha256HexOf
    /\ \A e \in Sha256HexOf :
          /\ Len(e[2]) = 64
          /\ \A i \in 1..64 :
                e[2][i] \in {"0", "1", "2", "3", "4", "5", "6", "7",
                             "8", "9", "a", "b", "c", "d", "e", "f"}
    /\ \A e \in Base64Of : Len(e[2]) = 4 * ((Len(e[1]) + 2) \div 3)

\* C31: encode_password selects the encoding from password_type alone:
\* "0" and "3" give the base64 of the raw password, "4" and every other code
\* give the lowercase-hex SHA-256 digest, and every call with the same
\* password and scheme code gives the same result, whatever the rest of the
\* login state.
C31_EncodingSelectedByPasswordType ==
    /\ EncodingsAreGenuine
    /\ \A i \in 1..Len(call.encoded) :
          call.encoded[i] =
              SelectedEncoding(call.password, call.login_state.password_type)[2]

\* C31 witness: "admin" was encoded twice under an unrecognized scheme code,
\* for login states that differ, and both results are the SHA-256 digest.
C31_Witness ==
    /\ call.pc = "encoded"
    /\ call.password = <<97, 100, 109, 105, 110>>
    /\ call.login_state.password_type = "999"
    /\ call.login_state.state = "-2"
    /\ call.encoded = <<AdminSha256, AdminSha256>>

\* The authentication fields of a session state.
AuthFields(s) == <<s.is_authenticated, s.username, s.last_auth_time>>

\* No token header of the response holds a non-empty value.
NoNonEmptyTokenHeader(headers) ==
    \A i \in 1..Len(TokenHeaders) :
        headers[TokenHeaders[i]] \in {None, Some("")}

\* Over every session state and every header set: without a non-empty token
\* header update_token_from_headers returns the state it was given and the
\* call has no write to make; with any header set it keeps the
\* authentication fields.
HeaderUpdateFrame ==
    \A s \in SessionStates, headers \in HeaderMaps :
        /\ NoNonEmptyTokenHeader(headers)
           => /\ UpdateTokenFromHeaders(s, headers) = s
              /\ BeginOp("update_token_from_headers", headers, "admin").pc = "done"
        /\ AuthFields(UpdateTokenFromHeaders(s, headers)) = AuthFields(s)

\* A step that changes the session is the write block of one task; a header
\* write or an acquisition write changes csrf_token only, and the
\* authentication fields change only in mark_authenticated and
\* clear_session (invalidate_session calls clear_session).
OnlyAuthOpsWriteAuthFields ==
    session' # session
    => \E t \in Tasks :
          /\ tasks[t].pc = "write" /\ tasks'[t].pc = "done"
          /\ tasks[t].write.kind \in {"header", "acquired"}
             => /\ AuthFields(session') = AuthFields(session)
                /\ session'.csrf_token = Some(tasks[t].write.token)
          /\ AuthFields(session') # AuthFields(session)
             => tasks[t].op \in {"mark_authenticated", "clear_session",
                                 "invalidate_session"}

\* An update_token_from_headers call that returns without a write leaves the
\* session as it is.
HeaderlessUpdateChangesNothing ==
    \A t \in Tasks :
        (tasks'[t] # tasks[t] /\ tasks[t].pc # "write" /\ tasks'[t].pc = "done"
         /\ tasks'[t].op = "update_token_from_headers")
        => session' = session

\* C32: update_token_from_headers changes nothing when the response carries
\* no non-empty token header, and in every case leaves is_authenticated,
\* username and last_auth_time unchanged; the acquisition stages write only
\* csrf_token; the authentication fields are modified only by
\* mark_authenticated and clear_session.
C32_TokenWritesKeepAuthFields ==
    /\ []HeaderUpdateFrame
    /\ [][OnlyAuthOpsWriteAuthFields /\ HeaderlessUpdateChangesNothing]_vars

\* C32 witness: on an authenticated session holding a token, one
\* update_token_from_headers call has stored a header token and another has
\* returned without a write; the session is still authenticated and holds
\* the header token.
C32_Witness ==
    \E t \in Tasks, u \in Tasks :
        /\ tasks[t].op = "update_token_from_headers" /\ tasks[t].pc = "done"
        /\ IsSome(tasks[t].stored)
        /\ tasks[u].op = "update_token_from_headers" /\ tasks[u].pc = "done"
        /\ tasks[u].stored = None
        /\ session.is_authenticated /\ IsSome(session.username)
        /\ session.csrf_token = tasks[t].stored

\* min(max_delay, initial_delay * backoff_multiplier^k) as a fraction: the
\* capped base delay is CappedNum(st, k) / Pow(den, k) milliseconds.
CappedNum(st, k) ==
    LET m == st.backoff_multiplier
        grown == st.initial_delay * Pow(m.num, k)
        cap == st.max_delay * Pow(m.den, k)
    IN  IF grown < cap THEN grown ELSE cap

\* C33 (as claimed): with jitter enabled the delay returned by
\* calculate_delay(k) lies between 0.75 and 1.25 times the capped base delay
\* min(max_delay, initial_delay * backoff_multiplier^k), and never exceeds
\* 1.25 * max_delay.
C33_JitterWithinFactorOfCappedBase ==
    retry_strategy.jitter
    => \A i \in 1..Len(call.delays) :
          LET den == Pow(retry_strategy.backoff_multiplier.den, i - 1)
              base == CappedNum(retry_strategy, i - 1)
          IN  /\ 4 * call.delays[i] * den >= 3 * base
              /\ 4 * call.delays[i] * den <= 5 * base
              /\ 4 * call.delays[i] <= 5 * retry_strategy.max_delay

\* C33 (amended): with jitter enabled the delay returned by
\* calculate_delay(k) is a whole number of milliseconds, at most 1.25 * d and
\* more than 0.75 * d - 1, where d is the capped base delay
\* min(max_delay, initial_delay * backoff_multiplier^k) truncated to whole
\* milliseconds; it never exceeds 1.25 * max_delay.
C33_JitterWithinFactorTruncated ==
    retry_strategy.jitter
    => \A i \in 1..Len(call.delays) :
          LET d == CappedBackoff(retry_strategy, i - 1)
          IN  /\ 4 * call.delays[i] + 4 > 3 * d
              /\ 4 * call.delays[i] <= 5 * d
              /\ 4 * call.delays[i] <= 5 * retry_strategy.max_delay

\* C33 witness: under a jittered strategy capped at 5 ms, a delay of 6 ms
\* (above max_delay) was slept, and a later delay fell below the cap.
C33_Witness ==
    /\ retry_strategy.jitter /\ retry_strategy.max_delay = 5
    /\ \E i \in 1..Len(call.delays), j \in 1..Len(call.delays) :
          /\ i < j
          /\ call.delays[i] = 6
          /\ CappedBackoff(retry_strategy, j - 1) = 5
          /\ call.delays[j] = 3

\* The token the preference order names for a page, or None: (a) the content
\* of the first meta tag named csrf_token if not empty, otherwise (b) the
\* content of the first meta tag whose content contains "csrf" if not empty,
\* otherwise (c) the content of the first meta tag whose content is
\* alphanumeric and longer than 20 characters.
PreferredToken(metas) ==
    LET First(S) == CHOOSE i \in S : \A j \in S : i <= j
        HasContent(i) == IsSome(metas[i].content)
        ContentOf(i) == Unwrap(metas[i].content)
        named == {i \in 1..Len(metas) : metas[i].name = Some("csrf_token")}
        marked == {i \in 1..Len(metas) : HasContent(i) /\ ContentOf(i).csrf}
        long == {i \in 1..Len(metas) :
                    HasContent(i) /\ ContentOf(i).alnum /\ ContentOf(i).chars > 20}
        NonEmptyFirst(S) ==
            S # {} /\ HasContent(First(S)) /\ ContentOf(First(S)).val # ""
    IN  IF NonEmptyFirst(named) THEN Some(ContentOf(First(named)).val)
        ELSE IF NonEmptyFirst(marked) THEN Some(ContentOf(First(marked)).val)
        ELSE IF long # {} THEN Some(ContentOf(First(long)).val)
        ELSE None

\* C34: extract_token_from_html returns the token of the preference order
\* (a), (b), (c) over the page's meta tags, never a lower-preference match
\* while a higher-preference match exists, and fails with a Session error
\* if none matches.
C34_StrictPreferenceOverMetaTags ==
    call.pc = "extracted"
    => /\ ~call.panicked
       /\ IF IsSome(PreferredToken(call.page))
          THEN call.result = Ok(Unwrap(PreferredToken(call.page)))
          ELSE ~call.result.ok /\ call.result.err.kind = "Session"

\* On the pages whose contents are ASCII the extraction returns the token of
\* the preference order, or a Session error if none matches.
StrictPreferenceOnAsciiPages ==
    (/\ call.pc = "extracted"
     /\ \A i \in 1..Len(call.page) :
           IsSome(call.page[i].content)
           => Unwrap(call.page[i].content).chars = Unwrap(call.page[i].content).len)
    => /\ ~call.panicked
       /\ IF IsSome(PreferredToken(call.page))
          THEN call.result = Ok(Unwrap(PreferredToken(call.page)))
          ELSE ~call.result.ok /\ call.result.err.kind = "Session"

\* The call ended on a readable response whose body is the envelope of
\* device code 125001, handed to check_xml_for_errors.
EndedOnWrongToken ==
    /\ call.pc = "done" /\ call.exec_result.ok /\ call.resp.read
    /\ call.op \in {"get_check", "post_check", "get_auth_retry", "post_retry"}
    /\ call.resp.body = ErrorEnvelope(WRONG_TOKEN)

CheckedEndedOnTokenError ==
    /\ call.pc = "done" /\ call.exec_result.ok /\ call.resp.read
    /\ call.op \in {"get_check", "post_check"}
    /\ call.resp.body.kind = "error"
    /\ call.resp.body.code \in {CSRF_TOKEN_ERROR, SESSION_TOKEN_ERROR}

\* Such an endpoint has returned the token-class error with the session
\* invalidated, after no refresh and no replay, the response read being the
\* only one it obtained.
CheckedReturnsTokenError ==
    CheckedEndedOnTokenError
    => /\ call.result = Err(ErrorApi(call.resp.body.code))
       /\ IsTokenError(call.result.err)
       /\ session = DefaultSession
       /\ call.pass = 1 /\ ~call.tok_err
       /\ call.refreshes = 0 /\ call.replays = 0
       /\ call.oks = 1

\* The step in which such an endpoint reads the body ends the call and
\* sends nothing: the request is not sent again.
CheckedBodyStepSendsNothing ==
    (call.pc = "body" /\ call.op \in {"get_check", "post_check"})
    => /\ call'.pc = "done"
       /\ call'.sent_plain = call.sent_plain
       /\ call'.sent_token = call.sent_token
       /\ call'.oks = call.oks

UnauthenticatedAfterReplay ==
    /\ (call.op \in RetryOps /\ call.refreshes >= 1)
       => AuthFields(session) = AuthFields(DefaultSession)
    /\ (/\ call.op \in RetryOps /\ call.pc = "done"
        /\ call.replays = 1 /\ call.result.ok)
       => /\ IsSome(session.csrf_token)
          /\ IsSome(call.hdr_tok) => session.csrf_token = call.hdr_tok

\* The refresh that leads to the replay caches the refreshed token; during
\* the replay the cache changes only to the token of the response headers, or
\* to empty by an invalidation. No step of an operation other than login
\* sets is_authenticated.
ReplayKeepsRefreshedToken ==
    /\ (call.pc = "refresh" /\ call'.pass = 2)
       => /\ IsSome(session'.csrf_token)
          /\ AuthFields(session') = AuthFields(session)
    /\ (/\ call.op \in RetryOps /\ call.pass = 2
        /\ session'.csrf_token # session.csrf_token)
       => session'.csrf_token \in {None, call'.hdr_tok}
    /\ (session'.is_authenticated /\ ~session.is_authenticated)
       => (call.op = "login" /\ call.pc = "body")

AlreadyLoggedInIsNotMarked ==
    (LoginEndedOnState /\ IsLoggedIn(call.state_body))
    => /\ call.result = Ok("unit")
       /\ ~call.marked
       /\ session.is_authenticated = call.auth_at_start

\* The step in which login reads the state-login text and returns Ok leaves
\* the session state as it was.
LoginDecisionKeepsSession ==
    (/\ call.op = "login" /\ call.pc = "body" /\ call.req = "plain"
     /\ call'.pc = "done" /\ call'.result.ok)
    => /\ session' = session
       /\ call'.marked = call.marked

\* C38: when login returns Ok through the already-logged-in path, the session
\* state is left unchanged by the login decision: mark_authenticated is not
\* called, so is_authenticated, username and last_auth_time keep their
\* values, and a client that was not authenticated still is not.
C38_AlreadyLoggedInLeavesSessionUnchanged ==
    []AlreadyLoggedInIsNotMarked /\ [][LoginDecisionKeepsSession]_vars

\* C38 witness: on a session never authenticated, login has returned Ok on a
\* logged-in state, and is_authenticated is still false with no username and
\* no authentication time.
C38_Witness ==
    /\ LoginEndedOnState /\ IsLoggedIn(call.state_body)
    /\ call.result.ok
    /\ ~call.auth_at_start
    /\ ~call.marked
    /\ AuthFields(session) = AuthFields(DefaultSession)

\* A refresh_csrf_token whose two stages failed has returned an error without
\* having asked for the write lock or stored anything.
FailedRefreshWroteNothing ==
    \A t \in Tasks :
        (tasks[t].op = "refresh_csrf_token" /\ BothStagesFailed(t))
        => /\ ~tasks[t].result.ok
           /\ tasks[t].write = NoWrite
           /\ tasks[t].stored = None
           /\ lock.writer # t

\* Every step of a refresh_csrf_token call on the way to that failure (the
\* call itself, the failure of the token endpoint, the failure of the home
\* page) leaves the session state as it was.
FailingRefreshStepKeepsSession ==
    \A t \in Tasks :
        (/\ tasks'[t] # tasks[t]
         /\ tasks'[t].op = "refresh_csrf_token"
         /\ \/ tasks'[t].pc \in {"api_send", "home_send"}
            \/ tasks'[t].pc = "done" /\ ~tasks'[t].result.ok)
        => session' = session

\* C39: when refresh_csrf_token fails, both acquisition stages having
\* failed, the session state is as the call found it: a cached token is
\* neither cleared nor replaced and the authentication fields are untouched.
C39_FailedRefreshLeavesSessionUnchanged ==
    []FailedRefreshWroteNothing /\ [][FailingRefreshStepKeepsSession]_vars

\* C39 witness: on an authenticated session that holds a cached token,
\* refresh_csrf_token has failed in both stages, and the session is still
\* authenticated and still holds the token.
C39_Witness ==
    \E t \in Tasks :
        /\ tasks[t].op = "refresh_csrf_token" /\ BothStagesFailed(t)
        /\ ~tasks[t].result.ok
        /\ IsSome(session.csrf_token)
        /\ session.is_authenticated
        /\ IsSome(session.username) /\ IsSome(session.last_auth_time)
        /\ hist.acquired = {}

====
